---- MODULE Spec2Model ----
(***************************************************************************)
(* Model of bitcoin-wallet-bruteforce-offline.go: the worker pool, the     *)
(* buffered match channel with its single writer goroutine, the statistics *)
(* reporter and the part of main that starts them.                         *)
(*                                                                         *)
(* Each action is one step of one goroutine.  A step contains at most one  *)
(* access to state that another goroutine can see (the atomic counter, the *)
(* channel, the output file, the process exit status), so every            *)
(* interleaving the Go scheduler can produce is an interleaving of these   *)
(* actions.  The return of generateKeyAndAddress is a step of its own, so  *)
(* that the number of calls made so far can be compared with the counter.  *)
(*                                                                         *)
(* counter and localCounter are uint64 in the program.  The model explores *)
(* at most MaxCalls successful calls, far from 2^64, and uses plain        *)
(* integers.                                                               *)
(***************************************************************************)
EXTENDS Integers, Sequences, FiniteSets, Bags, TLC

(***************************************************************************)
(* Bounds of the model.                                                    *)
(***************************************************************************)
\* largest worker count (os.Args[1]) explored
MaxThreads == 2
\* const updateInterval = 10000 in worker, scaled down
updateInterval == 2
\* make(chan MatchResult, 100) in main, scaled down
matchChanCap == 2
\* successful generateKeyAndAddress calls explored, over all workers
MaxCalls == 3
\* failed generateKeyAndAddress calls explored, over all workers
MaxGenErrors == 2

\* largest worker count explored by the specification of the whole of main
SideThreads == 1
\* latest clock reading explored, in ticker periods
MaxTime == 3

\* longest address file explored, in characters
MaxContent == 4
\* bufio.MaxScanTokenSize (64 * 1024), the size the buffer of a
\* bufio.Scanner grows to, scaled down
MaxScanTokenSize == 3

\* calls of bufferPool.New explored
MaxBuffers == 3

\* worker ids; main starts the workers 0 .. numThreads-1
Workers == 0 .. (MaxThreads - 1)

(***************************************************************************)
(* Values.  A private key is a sequence of bytes, an address a sequence of *)
(* characters.  Real keys have 32 bytes and real addresses 26..35          *)
(* characters; the model uses one byte and two characters.                 *)
(***************************************************************************)
PrivateKeys == { <<222>>, <<10>> }
\* the addresses generateKeyAndAddress can return; they differ in case only
GenAddresses == { <<"1", "A">>, <<"1", "a">> }
\* the lines of the address file given on the command line
TargetAddresses == { <<"1", "A">> }

MatchResults == [privateKey : PrivateKeys, address : GenAddresses]
NoMatch == [privateKey |-> <<>>, address |-> <<>>]

\* exit status of the process: Running while it has not exited; Exit1 after
\* os.Exit(1), which log.Fatalf calls
Running == "running"
Exit1 == "exit(1)"

\* what the process prints when it ends itself
UsageMsg == "Usage: ./bitcoin-wallet-bruteforce-offline ..."
AtoiMsg == "Invalid number of threads"
ThreadsMsg == "Number of threads must be at least 1"
ReadMsg == "Failed to read BTC addresses"
OpenMsg == "Failed to open output file"
NoMsg == ""

\* a rate is the quotient float64(keys) / seconds, kept as the pair of its
\* operands; the figures of a statistics line are the total and two rates
NoReport == [total |-> 0, overallRate |-> << 0, 1 >>, instantRate |-> << 0, 1 >>]

VARIABLES
    numThreads,    \* numThreads of main: the worker count of the command line
    mainPc,        \* position of main
    started,       \* loop variable i of main's worker start loop
    btcAddresses,  \* the address set loaded by readAddresses
    counter,       \* var counter uint64 of main, shared
    matchChan,     \* buffer of the match channel, oldest first
    wpc,           \* position of each worker
    cand,          \* privateKey, publicAddress of the worker's iteration
    localCounter,  \* localCounter of each worker
    cpc,           \* position of matchWriter
    match,         \* loop variable of matchWriter's range loop
    wbuf,          \* bytes buffered in the bufio.Writer
    file,          \* content of the output file
    spc,           \* position of statsReporter
    lastTotal,     \* lastTotal of statsReporter
    exitCode,      \* exit status of the process, or Running
    calls,         \* history: successful generator calls of each worker
    genErrLog,     \* history: number of "Failed to generate" lines logged
    hits,          \* history: bag of generated pairs whose address is a target
    submitted,     \* history: records accepted by the channel, in order
    argc,          \* len(os.Args)
    threadsArg,    \* os.Args[1], a sequence of characters
    file0,         \* history: content of the output file when the process began
    fileExists,    \* whether the output file exists in the file system
    werr,          \* the error the bufio.Writer keeps (b.err != nil)
    writeErrLog,   \* history: number of "Failed to write match" lines logged
    failed,        \* history: records whose WriteString or Flush failed
    clock,         \* the clock, at its latest reading
    lastTime,      \* lastTime of statsReporter (startTime is 0)
    report,        \* the figures of the latest statistics line
    fatalMsg,      \* what the process printed when it ended itself, or ""
    saved,         \* the records printed as "SAVED TO FILE", in order
    intervals,     \* the sum of the interval counts of the ticks so far
    closed,        \* whether close(matchChan) has been executed
    source,        \* the address file given to readAddresses
    loaded,        \* what readAddresses returned, or NotLoaded
    pool,          \* the buffers in bufferPool
    held,          \* the buffer each worker has got from bufferPool, or NoBuffer
    allocated,     \* number of buffers made by bufferPool.New
    hashIn,        \* the hash160 and checksum of a derivation
    derived        \* what the derivation returned, or NotDerived

vars == << numThreads, mainPc, started, btcAddresses, counter, matchChan, wpc, cand,
           localCounter, cpc, match, wbuf, file, spc, lastTotal,
           exitCode, calls, genErrLog, hits, submitted,
           argc, threadsArg, file0, fileExists, werr, writeErrLog, failed,
           clock, lastTime, report, fatalMsg, closed, source, loaded, pool,
           held, allocated, hashIn, derived, saved, intervals >>

mainVars   == << numThreads, mainPc, started >>
workerVars == << wpc, cand, localCounter >>
writerVars == << cpc, match, wbuf, file >>
statsVars  == << spc, lastTotal >>
histVars   == << calls, genErrLog, hits, submitted >>
argVars    == << argc, threadsArg, file0 >>
bufVars    == << werr, writeErrLog, failed, saved >>
timeVars   == << clock, lastTime, report, intervals >>
\* what the goroutine startup, the workers and the loss-free writer leave alone
readVars   == << source, loaded >>
poolVars   == << pool, held, allocated >>
addrVars   == << hashIn, derived >>
libVars    == << closed, readVars, poolVars, addrVars >>
auxVars    == << argVars, libVars, fileExists, bufVars, timeVars, fatalMsg >>

(***************************************************************************)
(* Pure helpers.                                                           *)
(***************************************************************************)
RECURSIVE SumOver(_, _)
SumOver(f, S) ==
    IF S = {} THEN 0
    ELSE LET x == CHOOSE y \in S : TRUE IN f[x] + SumOver(f, S \ {x})

HexDigits == << "0", "1", "2", "3", "4", "5", "6", "7",
                "8", "9", "a", "b", "c", "d", "e", "f" >>

\* encoding/hex: two lower-case digits per byte, high nibble first
RECURSIVE EncodeToString(_)
EncodeToString(bytes) ==
    IF bytes = <<>> THEN <<>>
    ELSE << HexDigits[(Head(bytes) \div 16) + 1],
            HexDigits[(Head(bytes) % 16) + 1] >>
         \o EncodeToString(Tail(bytes))

\* fmt.Sprintf("%s:%s\n", privKeyHex, match.address)
FormatLine(m) ==
    EncodeToString(m.privateKey) \o << ":" >> \o m.address \o << "\n" >>

\* upper-case letters folded to lower case
ToLower(address) ==
    [i \in 1 .. Len(address) |->
        IF address[i] = "A" THEN "a" ELSE address[i]]

\* variant of IsMember: a lookup that ignores case
IsMemberFold(index, address) ==
    \E t \in index : ToLower(t) = ToLower(address)

\* _, exists := btcAddresses[publicAddress]
IsMember(index, address) == address \in index

\* variant of BatchDue: the shared counter is updated on every iteration
BatchDueAlways(lc) == TRUE

\* localCounter%updateInterval == 0
BatchDue(lc) == lc % updateInterval = 0

\* variant of CanSend: a channel that never blocks the sender
CanSendAlways(q) == TRUE

\* variant of CanSend: a buffer taken as full one element early
CanSendOffByOne(q) == Len(q) + 1 < matchChanCap

\* variant of CanSend: an unbuffered channel, where a send proceeds only
\* when the receiver is waiting in its receive
CanSendUnbuffered(q) == q = <<>> /\ cpc = "recv"

\* a send on the buffered channel proceeds only while the buffer has room
CanSend(q) == Len(q) < matchChanCap

DigitChars == << "0", "1", "2", "3", "4", "5", "6", "7", "8", "9" >>

IsDigit(c) == \E i \in 1 .. 10 : DigitChars[i] = c

DigitValue(c) == (CHOOSE i \in 1 .. 10 : DigitChars[i] = c) - 1

\* value of a sequence of decimal digits
RECURSIVE DigitsValue(_)
DigitsValue(ds) ==
    IF ds = <<>> THEN 0
    ELSE 10 * DigitsValue(SubSeq(ds, 1, Len(ds) - 1)) + DigitValue(ds[Len(ds)])

\* strconv.Atoi: an optional sign and at least one decimal digit, else
\* (0, error)
Atoi(s) ==
    LET signed == s # <<>> /\ s[1] \in {"+", "-"}
        body == IF signed THEN Tail(s) ELSE s
        ok == body # <<>> /\ \A i \in 1 .. Len(body) : IsDigit(body[i])
    IN  IF ok
        THEN [n |-> IF signed /\ s[1] = "-" THEN 0 - DigitsValue(body)
                                              ELSE DigitsValue(body),
              err |-> FALSE]
        ELSE [n |-> 0, err |-> TRUE]

\* the decimal form of a worker count below ten
Itoa(n) == << DigitChars[n + 1] >>

\* values of os.Args[1] explored: not a number, zero, negative, and the
\* worker counts
ThreadArgs ==
    { << "x" >>, << "0" >>, << "-", "1" >> } \cup { Itoa(n) : n \in 1 .. SideThreads }

\* values of len(os.Args) explored: the program name and two, three or four
\* arguments
ArgCounts == { 3, 4, 5 }

\* content of the output file at the start of the process: none, or a line
\* of an earlier run
OldContents == { <<>>, << "o", "l", "d", "\n" >> }

(***************************************************************************)
(* readAddresses.  An address file is a sequence of characters; it may not *)
(* be openable, and reading it may fail after readBefore characters.       *)
(***************************************************************************)
FileChars == { "a", "b", "\r", "\n" }

RECURSIVE Texts(_)
Texts(n) ==
    IF n = 0 THEN { <<>> }
    ELSE LET shorter == Texts(n - 1) IN
         shorter \cup { Append(t, c) : t \in shorter, c \in FileChars }

Sources ==
    { [openable |-> o, content |-> c, readFails |-> f, readBefore |-> n] :
        o \in BOOLEAN, c \in Texts(MaxContent), f \in BOOLEAN,
        n \in 0 .. MaxContent }

\* a file that cannot be opened is not read, and a read fails at a place
\* inside the file
IsSource(src) ==
    /\ src.readFails => src.openable /\ src.readBefore <= Len(src.content)
    /\ ~src.readFails => src.readBefore = 0

NoSource == [openable |-> FALSE, content |-> <<>>, readFails |-> FALSE,
             readBefore |-> 0]

\* readAddresses has not been called
NotLoaded == [called |-> FALSE, addresses |-> {}, isNil |-> TRUE, err |-> FALSE]

\* place of the first "\n" of data, or 0
RECURSIVE IndexNewline(_, _)
IndexNewline(data, i) ==
    IF i > Len(data) THEN 0
    ELSE IF data[i] = "\n" THEN i
    ELSE IndexNewline(data, i + 1)

\* dropCR of bufio: a line loses one trailing "\r"
DropCR(line) ==
    IF line # <<>> /\ line[Len(line)] = "\r"
    THEN SubSeq(line, 1, Len(line) - 1)
    ELSE line

\* variant of Insert: empty lines are skipped
InsertNonEmpty(addresses, text) ==
    IF text = <<>> THEN addresses ELSE addresses \cup { text }

\* addresses[scanner.Text()] = true
Insert(addresses, text) == addresses \cup { text }

\* the loop for scanner.Scan() { ... } over the characters the file
\* delivers.  bufio.ScanLines ends a token at "\n", or at the end of the
\* data when characters are left; a line that does not fit into the buffer
\* with room for one more character ends the scan with ErrTooLong
RECURSIVE ScanAll(_, _)
ScanAll(data, addresses) ==
    IF data = <<>> THEN [addresses |-> addresses, tooLong |-> FALSE]
    ELSE LET i == IndexNewline(data, 1)
             line == IF i = 0 THEN data ELSE SubSeq(data, 1, i - 1)
             rest == IF i = 0 THEN <<>> ELSE SubSeq(data, i + 1, Len(data))
         IN  IF Len(line) >= MaxScanTokenSize
             THEN [addresses |-> addresses, tooLong |-> TRUE]
             ELSE ScanAll(rest, Insert(addresses, DropCR(line)))

\* variant of Failed: return addresses, err
FailedKeepsMap(addresses) ==
    [called |-> TRUE, addresses |-> addresses, isNil |-> FALSE, err |-> TRUE]

\* return nil, err
Failed(addresses) ==
    [called |-> TRUE, addresses |-> {}, isNil |-> TRUE, err |-> TRUE]

\* readAddresses(filePath)
readAddresses(src) ==
    IF ~src.openable THEN Failed({})
    ELSE LET data == IF src.readFails
                     THEN SubSeq(src.content, 1, src.readBefore)
                     ELSE src.content
             scan == ScanAll(data, {})
         IN  IF scan.tooLong \/ src.readFails
             THEN Failed(scan.addresses)
             ELSE [called |-> TRUE, addresses |-> scan.addresses,
                   isNil |-> FALSE, err |-> FALSE]

ReadIdle == source = NoSource /\ loaded = NotLoaded

(***************************************************************************)
(* bufferPool.  A buffer is a slice: the array it points to, known by the  *)
(* number it got when it was made, its length and its capacity.            *)
(***************************************************************************)
NoBuffer == [id |-> 0, len |-> 0, cap |-> 0]

\* the capacity of make([]byte, 0, 128)
BufCap == 128

\* variant of New: make([]byte, 0, 16)
NewSmall(id) == [id |-> id, len |-> 0, cap |-> 16]

\* New of bufferPool: make([]byte, 0, 128)
New(id) == [id |-> id, len |-> 0, cap |-> BufCap]

\* b[:0]: the same array and capacity, length 0
Reslice0(b) == [b EXCEPT !.len = 0]

\* append(b, n bytes...): in place while the capacity allows; else a new
\* array (number 0: none of the pool's) of at least the doubled capacity
AppendN(b, n) ==
    IF b.len + n <= b.cap
    THEN [b EXCEPT !.len = @ + n]
    ELSE [id |-> 0, len |-> b.len + n,
          cap |-> IF 2 * b.cap >= b.len + n THEN 2 * b.cap ELSE b.len + n]

PoolIdle ==
    /\ pool = {}
    /\ held = [w \in Workers |-> NoBuffer]
    /\ allocated = 0

(***************************************************************************)
(* The derivation of the address in generateKeyAndAddress.                 *)
(***************************************************************************)
NoHash == [hash160 |-> <<>>, checksum |-> <<>>]
NotDerived == [done |-> FALSE, privateKey |-> <<>>, address |-> <<>>,
               buf |-> <<>>, err |-> FALSE]

\* sizes of the payload: btcutil.Hash160 returns 20 bytes, the checksum is
\* h2[:4]
HashLen == 20
ChecksumLen == 4
\* the version byte of a mainnet P2PKH address
Version == 0
Radix == 58

\* the Base58 alphabet of base58.Encode, digit 0 first
Alphabet ==
    << "1", "2", "3", "4", "5", "6", "7", "8", "9",
       "A", "B", "C", "D", "E", "F", "G", "H", "J", "K", "L", "M", "N",
       "P", "Q", "R", "S", "T", "U", "V", "W", "X", "Y", "Z",
       "a", "b", "c", "d", "e", "f", "g", "h", "i", "j", "k", "m",
       "n", "o", "p", "q", "r", "s", "t", "u", "v", "w", "x", "y", "z" >>

\* the big-endian number b divided by Radix: quotient (as bytes of the same
\* length) and remainder, by long division from byte i on
RECURSIVE DivMod(_, _, _, _)
DivMod(b, i, q, r) ==
    IF i > Len(b) THEN [q |-> q, r |-> r]
    ELSE LET cur == r * 256 + b[i]
         IN  DivMod(b, i + 1, Append(q, cur \div Radix), cur % Radix)

AllZero(b) == \A i \in DOMAIN b : b[i] = 0

\* the Base58 digits of the number b, most significant first; none for 0
RECURSIVE Digits(_, _)
Digits(b, acc) ==
    IF AllZero(b) THEN acc
    ELSE LET d == DivMod(b, 1, <<>>, 0)
         IN  Digits(d.q, << Alphabet[d.r + 1] >> \o acc)

\* number of zero bytes b begins with
LeadingZeros(b) ==
    Cardinality({n \in DOMAIN b : \A i \in 1 .. n : b[i] = 0})

\* variant of Encode: the digits of the number only, without a "1" for
\* each leading zero byte
EncodeNumberOnly(b) == Digits(b, <<>>)

\* base58.Encode: the digits of the number, after one "1" (digit 0) for each
\* leading zero byte of b
Encode(b) == [i \in 1 .. LeadingZeros(b) |-> Alphabet[1]] \o Digits(b, <<>>)

\* hash160 values: z zero bytes, then a fill byte to the end
FillBytes == {1, 128, 255}
HashOf(z, f) == [i \in 1 .. HashLen |-> IF i <= z THEN 0 ELSE f]
Hashes == {HashOf(z, f) : z \in 0 .. HashLen, f \in FillBytes}
ZeroHash == HashOf(HashLen, 0)

\* the first four bytes of SHA256(SHA256(version + hash160)).  SHA-256 is
\* not computed: for a hash160 other than zero the checksum is any of the
\* values below, the smallest and the largest among them; for the zero
\* hash160 it is the value of the function, 94 a0 09 11
ZeroHashChecksum == << 148, 160, 9, 17 >>
SomeChecksums ==
    { << 0, 0, 0, 0 >>, << 0, 0, 0, 1 >>, << 0, 0, 1, 0 >>, ZeroHashChecksum,
      << 255, 255, 255, 255 >> }
Checksums(hash160) ==
    IF hash160 = ZeroHash THEN {ZeroHashChecksum} ELSE SomeChecksums

HashInputs ==
    {[hash160 |-> h, checksum |-> c] : h \in Hashes, c \in SomeChecksums}

\* lines 218-234: the payload built in buf and its encoding
Payload(in) == << Version >> \o in.hash160 \o in.checksum

AddrIdle == hashIn = NoHash /\ derived = NotDerived

(***************************************************************************)
(* Initial state: main has validated its arguments, loaded the address     *)
(* set and created the counter and the channel; no goroutine is started.   *)
(***************************************************************************)
Init ==
    /\ numThreads \in 1 .. MaxThreads
    /\ mainPc = "startWriter"
    /\ started = 0
    /\ btcAddresses = TargetAddresses
    /\ counter = 0
    /\ matchChan = <<>>
    /\ wpc = [w \in Workers |-> "unstarted"]
    /\ cand = [w \in Workers |-> NoMatch]
    /\ localCounter = [w \in Workers |-> 0]
    /\ cpc = "unstarted"
    /\ match = NoMatch
    /\ wbuf = <<>>
    /\ file = <<>>
    /\ spc = "unstarted"
    /\ lastTotal = 0
    /\ exitCode = Running
    /\ calls = [w \in Workers |-> 0]
    /\ genErrLog = 0
    /\ hits = EmptyBag
    /\ submitted = <<>>
    /\ argc = 4
    /\ threadsArg = Itoa(numThreads)
    /\ file0 = <<>>
    /\ fileExists = FALSE
    /\ ReadIdle
    /\ PoolIdle
    /\ AddrIdle
    /\ werr = FALSE
    /\ writeErrLog = 0
    /\ failed = 0
    /\ saved = <<>>
    /\ intervals = 0
    /\ clock = 0
    /\ lastTime = 0
    /\ report = NoReport
    /\ fatalMsg = NoMsg
    /\ closed = FALSE

(***************************************************************************)
(* main, from its first statement to the loading of the address set.       *)
(***************************************************************************)
\* the common end of log.Fatalf and of the usage branch: os.Exit(1)
Exits(msg) ==
    /\ exitCode' = Exit1
    /\ fatalMsg' = msg
    /\ UNCHANGED << mainVars, btcAddresses, counter, matchChan, workerVars,
                    writerVars, statsVars, histVars, argVars, libVars, fileExists,
                    bufVars, timeVars >>

\* what a step of main before the goroutine startup leaves alone
StartupFrame ==
    UNCHANGED << started, counter, matchChan, workerVars, writerVars, statsVars,
                 exitCode, histVars, auxVars >>

\* if len(os.Args) != 4: the usage lines and os.Exit(1)
MainUsage ==
    /\ exitCode = Running
    /\ mainPc = "args"
    /\ argc # 4
    /\ Exits(UsageMsg)

\* variant of MainAtoi: arguments after the third are tolerated
MainAtoiMore ==
    /\ exitCode = Running
    /\ mainPc = "args"
    /\ argc >= 4
    /\ ~Atoi(threadsArg).err
    /\ numThreads' = Atoi(threadsArg).n
    /\ mainPc' = "threads"
    /\ UNCHANGED btcAddresses
    /\ StartupFrame

\* numThreads, err := strconv.Atoi(os.Args[1]) without an error
MainAtoi ==
    /\ exitCode = Running
    /\ mainPc = "args"
    /\ argc = 4
    /\ ~Atoi(threadsArg).err
    /\ numThreads' = Atoi(threadsArg).n
    /\ mainPc' = "threads"
    /\ UNCHANGED btcAddresses
    /\ StartupFrame

\* strconv.Atoi returns an error: log.Fatalf
MainAtoiFail ==
    /\ exitCode = Running
    /\ mainPc = "args"
    /\ argc = 4
    /\ Atoi(threadsArg).err
    /\ Exits(AtoiMsg)

\* numThreads >= 1: GOMAXPROCS and the banner
MainThreadsOK ==
    /\ exitCode = Running
    /\ mainPc = "threads"
    /\ numThreads >= 1
    /\ mainPc' = "load"
    /\ UNCHANGED << numThreads, btcAddresses >>
    /\ StartupFrame

\* if numThreads < 1: log.Fatalf
MainThreadsFail ==
    /\ exitCode = Running
    /\ mainPc = "threads"
    /\ numThreads < 1
    /\ Exits(ThreadsMsg)

\* variant of MainLoadFail: the error of readAddresses is dropped and main
\* goes on with an empty set
MainLoadFailGoesOn ==
    /\ exitCode = Running
    /\ mainPc = "load"
    /\ btcAddresses' = {}
    /\ mainPc' = "startWriter"
    /\ fatalMsg' = ReadMsg
    /\ UNCHANGED << numThreads, started, counter, matchChan, workerVars,
                    writerVars, statsVars, exitCode, histVars, argVars, libVars,
                    fileExists, bufVars, timeVars >>

\* readAddresses returns an error: log.Fatalf
MainLoadFail ==
    /\ exitCode = Running
    /\ mainPc = "load"
    /\ Exits(ReadMsg)

\* btcAddresses, err := readAddresses(btcAddressesFile) without an error;
\* then var counter uint64 and matchChan := make(chan MatchResult, 100)
MainLoad ==
    /\ exitCode = Running
    /\ mainPc = "load"
    /\ btcAddresses' = TargetAddresses
    /\ mainPc' = "startWriter"
    /\ UNCHANGED numThreads
    /\ StartupFrame

MainStartup ==
    \/ MainUsage
    \/ MainAtoi
    \/ MainAtoiFail
    \/ MainThreadsOK
    \/ MainThreadsFail
    \/ MainLoad
    \/ MainLoadFail

(***************************************************************************)
(* main, from the goroutine startup on.                                    *)
(***************************************************************************)
\* go matchWriter(matchChan, outputFile, &writerWg)
MainStartWriter ==
    /\ exitCode = Running
    /\ mainPc = "startWriter"
    /\ mainPc' = "startStats"
    /\ cpc' = "open"
    /\ UNCHANGED auxVars
    /\ UNCHANGED << numThreads, started, btcAddresses, counter, matchChan, workerVars,
                    match, wbuf, file, statsVars, exitCode,
                    histVars >>

\* go statsReporter(&counter, startTime)
MainStartStats ==
    /\ exitCode = Running
    /\ mainPc = "startStats"
    /\ mainPc' = "startWorkers"
    /\ spc' = "tick"
    /\ UNCHANGED auxVars
    /\ UNCHANGED << numThreads, started, btcAddresses, counter, matchChan, workerVars,
                    writerVars, lastTotal, exitCode, histVars >>

\* for i := 0; i < numThreads; i++ { go worker(i, ...) }
MainStartWorker ==
    /\ exitCode = Running
    /\ mainPc = "startWorkers"
    /\ started < numThreads
    /\ wpc' = [wpc EXCEPT ![started] = "gen"]
    /\ started' = started + 1
    /\ UNCHANGED auxVars
    /\ UNCHANGED << numThreads, mainPc, btcAddresses, counter, matchChan, cand,
                    localCounter, writerVars, statsVars, exitCode,
                    histVars >>

\* variant of MainWait: close(matchChan) placed before workerWg.Wait()
MainWaitCloses ==
    /\ exitCode = Running
    /\ mainPc = "startWorkers"
    /\ started = numThreads
    /\ mainPc' = "wait"
    /\ closed' = TRUE
    /\ UNCHANGED << argVars, readVars, poolVars, addrVars, fileExists, bufVars,
                    timeVars, fatalMsg >>
    /\ UNCHANGED << numThreads, started, btcAddresses, counter, matchChan, workerVars,
                    writerVars, statsVars, exitCode, histVars >>

\* the loop ends and main blocks in workerWg.Wait(), which returns when as
\* many workers have called wg.Done() as were started.  No worker returns,
\* so the statements after it, close(matchChan) and writerWg.Wait(), are
\* never reached
MainWait ==
    /\ exitCode = Running
    /\ mainPc = "startWorkers"
    /\ started = numThreads
    /\ mainPc' = "wait"
    /\ UNCHANGED auxVars
    /\ UNCHANGED << numThreads, started, btcAddresses, counter, matchChan, workerVars,
                    writerVars, statsVars, exitCode, histVars >>

Main == MainStartWriter \/ MainStartStats \/ MainStartWorker \/ MainWait

(***************************************************************************)
(* worker                                                                  *)
(***************************************************************************)
\* variant of WorkerGenFail: localCounter++ placed before the error check
WorkerGenFailCounts(w) ==
    /\ exitCode = Running
    /\ wpc[w] = "gen"
    /\ genErrLog < MaxGenErrors
    /\ genErrLog' = genErrLog + 1
    /\ localCounter' = [localCounter EXCEPT ![w] = @ + 1]
    /\ UNCHANGED auxVars
    /\ UNCHANGED << mainVars, btcAddresses, counter, matchChan, wpc, cand,
                    writerVars, statsVars, exitCode, calls, hits,
                    submitted >>

\* variant of WorkerGenFail: log.Fatalf in place of log.Printf
WorkerGenFailFatal(w) ==
    /\ exitCode = Running
    /\ wpc[w] = "gen"
    /\ genErrLog < MaxGenErrors
    /\ genErrLog' = genErrLog + 1
    /\ exitCode' = Exit1
    /\ UNCHANGED auxVars
    /\ UNCHANGED << mainVars, btcAddresses, counter, matchChan, workerVars,
                    writerVars, statsVars, calls, hits, submitted >>

\* generateKeyAndAddress returns an error: log it and continue
WorkerGenFail(w) ==
    /\ exitCode = Running
    /\ wpc[w] = "gen"
    /\ genErrLog < MaxGenErrors
    /\ genErrLog' = genErrLog + 1
    /\ UNCHANGED auxVars
    /\ UNCHANGED << mainVars, btcAddresses, counter, matchChan, workerVars,
                    writerVars, statsVars, exitCode, calls, hits,
                    submitted >>

\* generateKeyAndAddress returns a key and its address
WorkerGenOK(w) ==
    /\ exitCode = Running
    /\ wpc[w] = "gen"
    /\ SumOver(calls, Workers) < MaxCalls
    /\ \E k \in PrivateKeys, a \in GenAddresses :
          LET m == [privateKey |-> k, address |-> a] IN
          /\ cand' = [cand EXCEPT ![w] = m]
          /\ hits' = IF a \in btcAddresses THEN hits (+) SetToBag({m})
                                           ELSE hits
    /\ wpc' = [wpc EXCEPT ![w] = "count"]
    /\ calls' = [calls EXCEPT ![w] = @ + 1]
    /\ UNCHANGED auxVars
    /\ UNCHANGED << mainVars, btcAddresses, counter, matchChan, localCounter,
                    writerVars, statsVars, exitCode, genErrLog,
                    submitted >>

\* variant of WorkerCount: no batching, atomic.AddUint64(counter, 1) on every
\* iteration
WorkerCountEach(w) ==
    /\ exitCode = Running
    /\ wpc[w] = "count"
    /\ counter' = counter + 1
    /\ IF IsMember(btcAddresses, cand[w].address)
       THEN /\ wpc' = [wpc EXCEPT ![w] = "send"]
            /\ cand' = cand
       ELSE /\ wpc' = [wpc EXCEPT ![w] = "gen"]
            /\ cand' = [cand EXCEPT ![w] = NoMatch]
    /\ UNCHANGED auxVars
    /\ UNCHANGED << mainVars, btcAddresses, matchChan, localCounter,
                    writerVars, statsVars, exitCode, histVars >>

\* variant of WorkerCount: the batch is added to the shared counter but
\* localCounter is not reset
WorkerCountNoReset(w) ==
    /\ exitCode = Running
    /\ wpc[w] = "count"
    /\ LET lc == localCounter[w] + 1 IN
          /\ counter' = IF BatchDue(lc) THEN counter + updateInterval ELSE counter
          /\ localCounter' = [localCounter EXCEPT ![w] = lc]
    /\ IF IsMember(btcAddresses, cand[w].address)
       THEN /\ wpc' = [wpc EXCEPT ![w] = "send"]
            /\ cand' = cand
       ELSE /\ wpc' = [wpc EXCEPT ![w] = "gen"]
            /\ cand' = [cand EXCEPT ![w] = NoMatch]
    /\ UNCHANGED auxVars
    /\ UNCHANGED << mainVars, btcAddresses, matchChan, writerVars,
                    statsVars, exitCode, histVars >>

\* localCounter++, the batch update of the shared counter, and the lookup of
\* the address in the set (which reads only the worker's own values and the
\* immutable set): on a hit the worker goes on to send, else to its next call
WorkerCount(w) ==
    /\ exitCode = Running
    /\ wpc[w] = "count"
    /\ LET lc == localCounter[w] + 1 IN
          IF BatchDue(lc)
          THEN /\ counter' = counter + updateInterval
               /\ localCounter' = [localCounter EXCEPT ![w] = 0]
          ELSE /\ counter' = counter
               /\ localCounter' = [localCounter EXCEPT ![w] = lc]
    /\ IF IsMember(btcAddresses, cand[w].address)
       THEN /\ wpc' = [wpc EXCEPT ![w] = "send"]
            /\ cand' = cand
       ELSE /\ wpc' = [wpc EXCEPT ![w] = "gen"]
            /\ cand' = [cand EXCEPT ![w] = NoMatch]
    /\ UNCHANGED auxVars
    /\ UNCHANGED << mainVars, btcAddresses, matchChan, writerVars,
                    statsVars, exitCode, histVars >>

\* variant of WorkerSend: select { case matchChan <- m: default: }, which
\* gives the record up when the buffer is full
WorkerSendDrop(w) ==
    /\ exitCode = Running
    /\ wpc[w] = "send"
    /\ matchChan' = IF CanSend(matchChan) THEN Append(matchChan, cand[w])
                                          ELSE matchChan
    /\ submitted' = Append(submitted, cand[w])
    /\ wpc' = [wpc EXCEPT ![w] = "gen"]
    /\ cand' = [cand EXCEPT ![w] = NoMatch]
    /\ UNCHANGED auxVars
    /\ UNCHANGED << mainVars, btcAddresses, counter, localCounter, writerVars,
                    statsVars, exitCode, calls, genErrLog, hits >>

\* variant of WorkerSend: the worker returns after its first match
WorkerSendReturns(w) ==
    /\ exitCode = Running
    /\ wpc[w] = "send"
    /\ CanSend(matchChan)
    /\ matchChan' = Append(matchChan, cand[w])
    /\ submitted' = Append(submitted, cand[w])
    /\ wpc' = [wpc EXCEPT ![w] = "done"]
    /\ cand' = [cand EXCEPT ![w] = NoMatch]
    /\ UNCHANGED auxVars
    /\ UNCHANGED << mainVars, btcAddresses, counter, localCounter, writerVars,
                    statsVars, exitCode, calls, genErrLog, hits >>

\* variant of WorkerSend: delete(btcAddresses, publicAddress) after the send
WorkerSendDeletes(w) ==
    /\ exitCode = Running
    /\ wpc[w] = "send"
    /\ CanSend(matchChan)
    /\ matchChan' = Append(matchChan, cand[w])
    /\ submitted' = Append(submitted, cand[w])
    /\ btcAddresses' = btcAddresses \ { cand[w].address }
    /\ wpc' = [wpc EXCEPT ![w] = "gen"]
    /\ cand' = [cand EXCEPT ![w] = NoMatch]
    /\ UNCHANGED auxVars
    /\ UNCHANGED << mainVars, counter, localCounter, writerVars,
                    statsVars, exitCode, calls, genErrLog, hits >>

\* matchChan <- MatchResult{privateKey, publicAddress}; blocks while full
WorkerSend(w) ==
    /\ exitCode = Running
    /\ wpc[w] = "send"
    /\ CanSend(matchChan)
    /\ matchChan' = Append(matchChan, cand[w])
    /\ submitted' = Append(submitted, cand[w])
    /\ wpc' = [wpc EXCEPT ![w] = "gen"]
    /\ cand' = [cand EXCEPT ![w] = NoMatch]
    /\ UNCHANGED auxVars
    /\ UNCHANGED << mainVars, btcAddresses, counter, localCounter, writerVars,
                    statsVars, exitCode, calls, genErrLog, hits >>

Worker(w) ==
    \/ WorkerGenFail(w)
    \/ WorkerGenOK(w)
    \/ WorkerCount(w)
    \/ WorkerSend(w)

(***************************************************************************)
(* matchWriter                                                             *)
(***************************************************************************)
\* variant of WriterOpen: os.O_CREATE left out and the file opened only
\* when it exists
WriterOpenNoCreate ==
    /\ exitCode = Running
    /\ cpc = "open"
    /\ cpc' = "recv"
    /\ UNCHANGED auxVars
    /\ UNCHANGED << mainVars, btcAddresses, counter, matchChan, workerVars,
                    match, wbuf, file, statsVars, exitCode, histVars >>

\* variant of WriterOpen: os.O_TRUNC in place of os.O_APPEND
WriterOpenTrunc ==
    /\ exitCode = Running
    /\ cpc = "open"
    /\ cpc' = "recv"
    /\ fileExists' = TRUE
    /\ file' = <<>>
    /\ UNCHANGED << argVars, libVars, bufVars, timeVars, fatalMsg >>
    /\ UNCHANGED << mainVars, btcAddresses, counter, matchChan, workerVars,
                    match, wbuf, statsVars, exitCode, histVars >>

\* os.OpenFile(outputFile, O_APPEND|O_CREATE|O_WRONLY, 0644) succeeds: the
\* file is created if it does not exist and its content is kept;
\* bufio.NewWriter(file)
WriterOpen ==
    /\ exitCode = Running
    /\ cpc = "open"
    /\ cpc' = "recv"
    /\ fileExists' = TRUE
    /\ UNCHANGED << argVars, libVars, bufVars, timeVars, fatalMsg >>
    /\ UNCHANGED << mainVars, btcAddresses, counter, matchChan, workerVars,
                    match, wbuf, file, statsVars, exitCode,
                    histVars >>

\* variant of WriterOpenFail: log.Printf in place of log.Fatalf, and the
\* writer goes on without a file
WriterOpenFailGoesOn ==
    /\ exitCode = Running
    /\ cpc = "open"
    /\ cpc' = "recv"
    /\ fatalMsg' = OpenMsg
    /\ UNCHANGED << argVars, libVars, fileExists, bufVars, timeVars >>
    /\ UNCHANGED << mainVars, btcAddresses, counter, matchChan, workerVars,
                    match, wbuf, file, statsVars, exitCode, histVars >>

\* os.OpenFile fails; log.Fatalf logs and ends the process with status 1
WriterOpenFail ==
    /\ exitCode = Running
    /\ cpc = "open"
    /\ exitCode' = Exit1
    /\ fatalMsg' = OpenMsg
    /\ UNCHANGED << argVars, libVars, fileExists, bufVars, timeVars >>
    /\ UNCHANGED << mainVars, btcAddresses, counter, matchChan, workerVars,
                    writerVars, statsVars, histVars >>

\* variant of WriterRecv: the newest element is received first
WriterRecvNewest ==
    /\ exitCode = Running
    /\ cpc = "recv"
    /\ matchChan # <<>>
    /\ match' = matchChan[Len(matchChan)]
    /\ matchChan' = SubSeq(matchChan, 1, Len(matchChan) - 1)
    /\ cpc' = "write"
    /\ UNCHANGED auxVars
    /\ UNCHANGED << mainVars, btcAddresses, counter, workerVars, wbuf, file,
                    statsVars, exitCode, histVars >>

\* for match := range matchChan: receive the oldest element
WriterRecv ==
    /\ exitCode = Running
    /\ cpc = "recv"
    /\ matchChan # <<>>
    /\ match' = Head(matchChan)
    /\ matchChan' = Tail(matchChan)
    /\ cpc' = "write"
    /\ UNCHANGED auxVars
    /\ UNCHANGED << mainVars, btcAddresses, counter, workerVars, wbuf, file,
                    statsVars, exitCode, histVars >>

\* writer.WriteString(line): the line (shorter than the 4096 bytes of the
\* buffer) goes to the bufio buffer; a writer that keeps an error takes
\* nothing and returns the error, which is logged
WriterWrite ==
    /\ exitCode = Running
    /\ cpc = "write"
    /\ IF werr
       THEN /\ wbuf' = wbuf
            /\ writeErrLog' = writeErrLog + 1
            /\ failed' = failed + 1
       ELSE /\ wbuf' = wbuf \o FormatLine(match)
            /\ UNCHANGED << writeErrLog, failed >>
    /\ cpc' = "flush"
    /\ UNCHANGED << argVars, libVars, fileExists, werr, saved, timeVars, fatalMsg >>
    /\ UNCHANGED << mainVars, btcAddresses, counter, matchChan, workerVars,
                    match, file, statsVars, exitCode, histVars >>

\* variant of WriterFlush: the per-record writer.Flush() left out, so the
\* line stays in the bufio buffer
WriterFlushNone ==
    /\ exitCode = Running
    /\ cpc = "flush"
    /\ saved' = Append(saved, match)
    /\ match' = NoMatch
    /\ cpc' = "recv"
    /\ UNCHANGED << argVars, libVars, fileExists, werr, writeErrLog, failed,
                    timeVars, fatalMsg >>
    /\ UNCHANGED << mainVars, btcAddresses, counter, matchChan, workerVars,
                    wbuf, file, statsVars, exitCode, histVars >>

\* variant of WriterFlush: a file.Write that takes all but the last byte of
\* the buffer and reports no error
WriterFlushShort ==
    /\ exitCode = Running
    /\ cpc = "flush"
    /\ IF werr \/ wbuf = <<>>
       THEN UNCHANGED << file, wbuf >>
       ELSE /\ file' = file \o SubSeq(wbuf, 1, Len(wbuf) - 1)
            /\ wbuf' = SubSeq(wbuf, Len(wbuf), Len(wbuf))
    /\ saved' = Append(saved, match)
    /\ match' = NoMatch
    /\ cpc' = "recv"
    /\ UNCHANGED << argVars, libVars, fileExists, werr, writeErrLog, failed,
                    timeVars, fatalMsg >>
    /\ UNCHANGED << mainVars, btcAddresses, counter, matchChan, workerVars,
                    statsVars, exitCode, histVars >>

\* writer.Flush() with a successful file.Write: the buffer is appended to
\* the file; a writer that keeps an error writes nothing and returns the
\* error.  The returned value is discarded; then the console line
\* "SAVED TO FILE" of the record is printed, whatever Flush returned
WriterFlush ==
    /\ exitCode = Running
    /\ cpc = "flush"
    /\ IF werr
       THEN UNCHANGED << file, wbuf >>
       ELSE /\ file' = file \o wbuf
            /\ wbuf' = <<>>
    /\ saved' = Append(saved, match)
    /\ match' = NoMatch
    /\ cpc' = "recv"
    /\ UNCHANGED << argVars, libVars, fileExists, werr, writeErrLog, failed,
                    timeVars, fatalMsg >>
    /\ UNCHANGED << mainVars, btcAddresses, counter, matchChan, workerVars,
                    statsVars, exitCode, histVars >>

\* writer.Flush() with a failing file.Write: n bytes of the buffer, fewer
\* than all, reach the file, the rest stays in the buffer and the writer
\* keeps the error.  The returned error is discarded; then the console line
\* "SAVED TO FILE" of the record is printed
WriterFlushFail ==
    /\ exitCode = Running
    /\ cpc = "flush"
    /\ ~werr
    /\ wbuf # <<>>
    /\ \E n \in 0 .. (Len(wbuf) - 1) :
          /\ file' = file \o SubSeq(wbuf, 1, n)
          /\ wbuf' = SubSeq(wbuf, n + 1, Len(wbuf))
    /\ werr' = TRUE
    /\ failed' = failed + 1
    /\ saved' = Append(saved, match)
    /\ match' = NoMatch
    /\ cpc' = "recv"
    /\ UNCHANGED << argVars, libVars, fileExists, writeErrLog, timeVars, fatalMsg >>
    /\ UNCHANGED << mainVars, btcAddresses, counter, matchChan, workerVars,
                    statsVars, exitCode, histVars >>

MatchWriter ==
    WriterOpen \/ WriterOpenFail \/ WriterRecv \/ WriterWrite \/ WriterFlush

(***************************************************************************)
(* statsReporter                                                           *)
(***************************************************************************)
\* one tick: total := atomic.LoadUint64(counter); ...; lastTotal = total
StatsTick ==
    /\ exitCode = Running
    /\ spc = "tick"
    /\ lastTotal' = counter
    /\ UNCHANGED auxVars
    /\ UNCHANGED << mainVars, btcAddresses, counter, matchChan, workerVars,
                    writerVars, spc, exitCode, histVars >>

\* the quotient float64(keys) / seconds of statsReporter
Rate(keys, seconds) == << keys, seconds >>

\* variant of TickReport: the interval count taken from 0, not from lastTotal
TickReportNoBaseline(total, now, since, lastTot, lastT) ==
    [total |-> total,
     overallRate |-> Rate(total, since),
     instantRate |-> Rate(total, now - lastT)]

\* variant of TickReport: the overall rate taken over the last interval
TickReportInterval(total, now, since, lastTot, lastT) ==
    [total |-> total,
     overallRate |-> Rate(total, now - lastT),
     instantRate |-> Rate(total - lastTot, now - lastT)]

\* the figures of one statistics line: elapsed is time.Since(startTime),
\* read at since, with startTime 0; intervalKeys := total - lastTotal;
\* intervalTime := now.Sub(lastTime)
TickReport(total, now, since, lastTot, lastT) ==
    [total |-> total,
     overallRate |-> Rate(total, since),
     instantRate |-> Rate(total - lastTot, now - lastT)]

\* variant of StatsTickTimed: atomic.SwapUint64(counter, 0) in place of the
\* load
StatsTickSwap ==
    /\ exitCode = Running
    /\ spc = "tick"
    /\ \E now \in (clock + 1) .. MaxTime :
       \E since \in { now, now + 1 } \cap (0 .. MaxTime) :
          /\ report' = TickReport(counter, now, since, lastTotal, lastTime)
          /\ intervals' = intervals + report'.instantRate[1]
          /\ counter' = 0
          /\ lastTotal' = counter
          /\ lastTime' = now
          /\ clock' = since
    /\ UNCHANGED << mainVars, btcAddresses, matchChan, workerVars,
                    writerVars, spc, exitCode, histVars, argVars, libVars, fileExists,
                    bufVars, fatalMsg >>

\* variant of StatsTickTimed: lastTotal = total left out, so the baseline
\* stays what it was
StatsTickStale ==
    /\ exitCode = Running
    /\ spc = "tick"
    /\ \E now \in (clock + 1) .. MaxTime :
       \E since \in { now, now + 1 } \cap (0 .. MaxTime) :
          /\ report' = TickReport(counter, now, since, lastTotal, lastTime)
          /\ intervals' = intervals + report'.instantRate[1]
          /\ lastTotal' = lastTotal
          /\ lastTime' = now
          /\ clock' = since
    /\ UNCHANGED << mainVars, btcAddresses, counter, matchChan, workerVars,
                    writerVars, spc, exitCode, histVars, argVars, libVars, fileExists,
                    bufVars, fatalMsg >>

\* one tick with its clock readings.  The ticker delivers a tick later than
\* the previous clock reading; now := time.Now() and time.Since(startTime)
\* read the clock one after the other.  total := atomic.LoadUint64(counter)
StatsTickTimed ==
    /\ exitCode = Running
    /\ spc = "tick"
    /\ \E now \in (clock + 1) .. MaxTime :
       \E since \in { now, now + 1 } \cap (0 .. MaxTime) :
          /\ report' = TickReport(counter, now, since, lastTotal, lastTime)
          /\ intervals' = intervals + report'.instantRate[1]
          /\ lastTotal' = counter
          /\ lastTime' = now
          /\ clock' = since
    /\ UNCHANGED << mainVars, btcAddresses, counter, matchChan, workerVars,
                    writerVars, spc, exitCode, histVars, argVars, libVars, fileExists,
                    bufVars, fatalMsg >>

Next == Main \/ (\E w \in Workers : Worker(w)) \/ MatchWriter \/ StatsTick

Spec == Init /\ [][Next]_vars

(***************************************************************************)
(* The fair specification: the writer goroutine keeps being scheduled, and *)
(* a sender parked on the channel is woken when the buffer has room (the   *)
(* Go runtime queues parked senders first-in first-out and a receive hands *)
(* the freed slot to the oldest of them).                                  *)
(***************************************************************************)
FairSpec ==
    /\ Spec
    /\ WF_vars(MatchWriter)
    /\ \A w \in Workers : SF_vars(WorkerSend(w))

(***************************************************************************)
(* The specification of the whole of main: it begins at the first          *)
(* statement of main, with the command line as the input.                  *)
(***************************************************************************)
\* the state of everything main has not yet created or started
NothingRun ==
    /\ started = 0
    /\ counter = 0
    /\ matchChan = <<>>
    /\ wpc = [w \in Workers |-> "unstarted"]
    /\ cand = [w \in Workers |-> NoMatch]
    /\ localCounter = [w \in Workers |-> 0]
    /\ cpc = "unstarted"
    /\ match = NoMatch
    /\ wbuf = <<>>
    /\ spc = "unstarted"
    /\ lastTotal = 0
    /\ exitCode = Running
    /\ calls = [w \in Workers |-> 0]
    /\ genErrLog = 0
    /\ hits = EmptyBag
    /\ submitted = <<>>
    /\ werr = FALSE
    /\ writeErrLog = 0
    /\ failed = 0
    /\ saved = <<>>
    /\ intervals = 0
    /\ clock = 0
    /\ lastTime = 0
    /\ report = NoReport
    /\ fatalMsg = NoMsg
    /\ closed = FALSE

InitStart ==
    /\ NothingRun
    /\ ReadIdle
    /\ PoolIdle
    /\ AddrIdle
    /\ argc \in ArgCounts
    /\ threadsArg \in ThreadArgs
    /\ numThreads = 0
    /\ mainPc = "args"
    /\ btcAddresses = {}
    /\ file0 = <<>>
    /\ file = file0
    /\ fileExists = FALSE

NextStart == MainStartup \/ Next

SpecStart == InitStart /\ [][NextStart]_vars

\* main and the writer goroutine keep being scheduled
FairStart ==
    /\ SpecStart
    /\ WF_vars(MainStartup \/ Main)
    /\ WF_vars(MatchWriter)

(***************************************************************************)
(* The specification of the failing output file: it begins where Spec      *)
(* begins, with one worker; the output file may hold the lines of an       *)
(* earlier run, and a file.Write may fail.                                 *)
(***************************************************************************)
InitFault ==
    /\ NothingRun
    /\ ReadIdle
    /\ PoolIdle
    /\ AddrIdle
    /\ argc = 4
    /\ numThreads = 1
    /\ threadsArg = Itoa(numThreads)
    /\ mainPc = "startWriter"
    /\ btcAddresses = TargetAddresses
    /\ file0 \in OldContents
    /\ file = file0
    /\ fileExists = (file0 # <<>>)

NextFault == Next \/ WriterFlushFail

SpecFault == InitFault /\ [][NextFault]_vars

(***************************************************************************)
(* The specification of the timed statistics: it begins where Spec begins, *)
(* with one worker, and its ticks read the clock.                          *)
(***************************************************************************)
InitStats ==
    /\ NothingRun
    /\ ReadIdle
    /\ PoolIdle
    /\ AddrIdle
    /\ argc = 4
    /\ numThreads = 1
    /\ threadsArg = Itoa(numThreads)
    /\ mainPc = "startWriter"
    /\ btcAddresses = TargetAddresses
    /\ file0 = <<>>
    /\ file = file0
    /\ fileExists = FALSE

NextStats ==
    Main \/ (\E w \in Workers : Worker(w)) \/ MatchWriter \/ StatsTickTimed

SpecStats == InitStats /\ [][NextStats]_vars

(***************************************************************************)
(* The specification of the buffer pool: it begins where Spec begins, and  *)
(* a call of generateKeyAndAddress is two steps, one that ends with        *)
(* bufferPool.Get() and one that ends with the deferred bufferPool.Put.    *)
(* sync.Pool hands out an item it holds or the result of New, and may drop *)
(* an item it holds at any time.  The address file is empty, so that no    *)
(* worker sends; the steps of matchWriter and statsReporter, which do not  *)
(* touch the pool, are left out.                                           *)
(***************************************************************************)
InitPool ==
    /\ NothingRun
    /\ ReadIdle
    /\ PoolIdle
    /\ AddrIdle
    /\ argc = 4
    /\ numThreads \in 1 .. MaxThreads
    /\ threadsArg = Itoa(numThreads)
    /\ mainPc = "startWriter"
    /\ btcAddresses = {}
    /\ file0 = <<>>
    /\ file = file0
    /\ fileExists = FALSE

\* what a step inside generateKeyAndAddress leaves alone
PoolFrame ==
    UNCHANGED << mainVars, btcAddresses, counter, matchChan, localCounter,
                 writerVars, statsVars, exitCode, genErrLog, submitted,
                 argVars, closed, readVars, addrVars, fileExists, bufVars,
                 timeVars, fatalMsg >>

\* variant of GenGet: the pool keeps the item it hands out
GenGetKeeps(w) ==
    /\ exitCode = Running
    /\ wpc[w] = "gen"
    /\ SumOver(calls, Workers) < MaxCalls
    /\ \/ \E b \in pool :
             /\ held' = [held EXCEPT ![w] = Reslice0(b)]
             /\ UNCHANGED << pool, allocated >>
       \/ /\ allocated < MaxBuffers
          /\ allocated' = allocated + 1
          /\ held' = [held EXCEPT ![w] = Reslice0(New(allocated + 1))]
          /\ UNCHANGED pool
    /\ wpc' = [wpc EXCEPT ![w] = "build"]
    /\ UNCHANGED << cand, calls, hits >>
    /\ PoolFrame

\* btcec.NewPrivateKey() without an error, the public key, Hash160, and
\* buf := bufferPool.Get().([]byte)[:0]: an item of the pool, taken out of
\* it, or a new buffer
GenGet(w) ==
    /\ exitCode = Running
    /\ wpc[w] = "gen"
    /\ SumOver(calls, Workers) < MaxCalls
    /\ \/ \E b \in pool :
             /\ pool' = pool \ { b }
             /\ held' = [held EXCEPT ![w] = Reslice0(b)]
             /\ UNCHANGED allocated
       \/ /\ allocated < MaxBuffers
          /\ allocated' = allocated + 1
          /\ held' = [held EXCEPT ![w] = Reslice0(New(allocated + 1))]
          /\ UNCHANGED pool
    /\ wpc' = [wpc EXCEPT ![w] = "build"]
    /\ UNCHANGED << cand, calls, hits >>
    /\ PoolFrame

\* variant of GenPut: no defer bufferPool.Put(buf)
GenPutNone(w) ==
    /\ exitCode = Running
    /\ wpc[w] = "build"
    /\ \E k \in PrivateKeys, a \in GenAddresses :
          LET m == [privateKey |-> k, address |-> a] IN
          /\ cand' = [cand EXCEPT ![w] = m]
          /\ hits' = IF a \in btcAddresses THEN hits (+) SetToBag({m})
                                           ELSE hits
    /\ UNCHANGED << pool, held, allocated >>
    /\ wpc' = [wpc EXCEPT ![w] = "count"]
    /\ calls' = [calls EXCEPT ![w] = @ + 1]
    /\ PoolFrame

\* the payload is built in the buffer and encoded; the deferred
\* bufferPool.Put(buf) runs, and the call returns the key and the address.
\* The argument of the deferred call is the value buf has at the defer
\* statement (line 215), the slice of length 0 that Get()[:0] gave, not the
\* value the appends give it afterwards
GenPut(w) ==
    /\ exitCode = Running
    /\ wpc[w] = "build"
    /\ \E k \in PrivateKeys, a \in GenAddresses :
          LET m == [privateKey |-> k, address |-> a] IN
          /\ cand' = [cand EXCEPT ![w] = m]
          /\ hits' = IF a \in btcAddresses THEN hits (+) SetToBag({m})
                                           ELSE hits
    /\ pool' = pool \cup { held[w] }
    /\ held' = [held EXCEPT ![w] = NoBuffer]
    /\ UNCHANGED allocated
    /\ wpc' = [wpc EXCEPT ![w] = "count"]
    /\ calls' = [calls EXCEPT ![w] = @ + 1]
    /\ PoolFrame

\* the garbage collector empties the pool of an item
PoolDrop ==
    /\ exitCode = Running
    /\ \E b \in pool : pool' = pool \ { b }
    /\ UNCHANGED << held, allocated, workerVars, calls, hits >>
    /\ PoolFrame

PoolWorker(w) ==
    \/ WorkerGenFail(w)
    \/ GenGet(w)
    \/ GenPut(w)
    \/ WorkerCount(w)

NextPool ==
    Main \/ (\E w \in Workers : PoolWorker(w)) \/ PoolDrop

SpecPool == InitPool /\ [][NextPool]_vars

(***************************************************************************)
(* The specification of readAddresses: main is about to load the address   *)
(* set, the address file is the input, and the one step is the call.       *)
(***************************************************************************)
\* the state of main before btcAddresses, err := readAddresses(...)
AtLoad ==
    /\ NothingRun
    /\ argc = 4
    /\ numThreads = 1
    /\ threadsArg = Itoa(numThreads)
    /\ mainPc = "load"
    /\ btcAddresses = {}
    /\ file0 = <<>>
    /\ file = file0
    /\ fileExists = FALSE

InitRead ==
    /\ AtLoad
    /\ source \in { src \in Sources : IsSource(src) }
    /\ loaded = NotLoaded
    /\ PoolIdle
    /\ AddrIdle

\* the call readAddresses(btcAddressesFile)
ReadAddresses ==
    /\ ~loaded.called
    /\ loaded' = readAddresses(source)
    /\ UNCHANGED << mainVars, btcAddresses, counter, matchChan, workerVars,
                    writerVars, statsVars, exitCode, histVars, argVars,
                    fileExists, bufVars, timeVars, fatalMsg, closed, source,
                    poolVars, addrVars >>

NextRead == ReadAddresses

SpecRead == InitRead /\ [][NextRead]_vars

(***************************************************************************)
(* Vocabulary of the properties.                                           *)
(***************************************************************************)
TypeOK ==
    /\ numThreads \in 1 .. MaxThreads
    /\ mainPc \in {"startWriter", "startStats", "startWorkers", "wait"}
    /\ started \in 0 .. numThreads
    /\ counter \in Nat
    /\ lastTotal \in Nat
    /\ wpc \in [Workers -> {"unstarted", "gen", "count", "send"}]
    /\ cand \in [Workers -> MatchResults \cup {NoMatch}]
    /\ localCounter \in [Workers -> 0 .. (updateInterval - 1)]
    /\ cpc \in {"unstarted", "open", "recv", "write", "flush"}
    /\ spc \in {"unstarted", "tick"}
    /\ exitCode \in {Running, Exit1}
    /\ matchChan \in Seq(MatchResults)
    /\ submitted \in Seq(MatchResults)

\* the lines of a text; a last line without its newline is kept as it is
RECURSIVE SplitLines(_, _)
SplitLines(s, cur) ==
    IF s = <<>> THEN (IF cur = <<>> THEN <<>> ELSE << cur >>)
    ELSE IF Head(s) = "\n"
         THEN << Append(cur, "\n") >> \o SplitLines(Tail(s), <<>>)
         ELSE SplitLines(Tail(s), Append(cur, Head(s)))

FileLines == SplitLines(file, <<>>)

\* number of occurrences of x in the sequence s
Count(s, x) == Cardinality({i \in DOMAIN s : s[i] = x})

\* the concatenation of the lines of a sequence of records
RECURSIVE Render(_)
Render(ms) ==
    IF ms = <<>> THEN <<>> ELSE FormatLine(Head(ms)) \o Render(Tail(ms))

\* the record the writer has received and not yet flushed
Held == IF cpc \in {"write", "flush"} THEN << match >> ELSE <<>>

\* the writer has opened the output file
Opened == cpc \in {"recv", "write", "flush"}

TotalCalls == SumOver(calls, Workers)
TotalLocal == SumOver(localCounter, Workers)

(***************************************************************************)
(* C1 - conservation of match records.  Every record whose send has        *)
(* completed is in exactly one place: in the channel buffer, held by the   *)
(* writer between receive and flush, or in the file as one line.  None is  *)
(* lost and none is written twice.                                         *)
(***************************************************************************)
C1_Conservation ==
    /\ Len(submitted) = Len(matchChan) + Len(Held) + Len(FileLines)
    /\ \A m \in MatchResults :
          Count(submitted, m) =
             Count(matchChan, m) + Count(Held, m)
                + Count(FileLines, FormatLine(m))

\* one record persisted, one held by the writer and one queued, at once
C1_Witness ==
    /\ Len(FileLines) = 1
    /\ Len(Held) = 1
    /\ Len(matchChan) = 1

(***************************************************************************)
(* C2 - liveness of persistence, under FairSpec.  Once the output file is  *)
(* open, the k-th record accepted by the channel is eventually the k-th    *)
(* line of the file, and a worker blocked in its send is eventually        *)
(* through with it.                                                        *)
(***************************************************************************)
C2_EventuallyPersisted ==
    /\ \A k \in 1 .. MaxCalls :
          (Opened /\ Len(submitted) >= k) ~> (Len(FileLines) >= k)
    /\ \A w \in Workers :
          (Opened /\ wpc[w] = "send") ~> (wpc[w] # "send")

\* more records than the channel holds were submitted, by two workers, and
\* all of them are in the file
C2_Witness ==
    /\ numThreads = 2
    /\ calls[0] > 0 /\ calls[1] > 0
    /\ Len(submitted) > matchChanCap
    /\ Len(FileLines) = Len(submitted)

(***************************************************************************)
(* C3 - backpressure.  The channel buffer never holds more than its        *)
(* capacity.  While the buffer is full, a worker that is at its send stays *)
(* there with its record and makes no further generator call, whatever     *)
(* step is taken; and only the writer's receive makes room.                *)
(***************************************************************************)
BlockedStays(w) ==
    (wpc[w] = "send" /\ Len(matchChan) = matchChanCap)
       => /\ wpc'[w] = "send"
          /\ cand'[w] = cand[w]
          /\ calls'[w] = calls[w]
          /\ (Len(matchChan') < matchChanCap
                 => cpc = "recv" /\ cpc' = "write")

\* C3: the buffer never exceeds its capacity, and a sender blocked on the full
\* buffer stays blocked, with its record, until the writer receives
C3_Backpressure ==
    /\ [](Len(matchChan) <= matchChanCap)
    /\ [][\A w \in Workers : BlockedStays(w)]_vars

\* a worker is at its send while the buffer is full
C3_Witness ==
    \E w \in Workers :
       wpc[w] = "send" /\ cand[w] # NoMatch /\ Len(matchChan) = matchChanCap

(***************************************************************************)
(* C4 - first-in first-out persistence by the one writer.  The file is the *)
(* rendering, record for record, of a prefix of the sequence of accepted   *)
(* submissions; the record held by the writer and the channel buffer are   *)
(* the rest of that sequence, in order.  Only the writer takes an element  *)
(* out of the channel, and it takes the oldest.                            *)
(***************************************************************************)
PersistedInOrder ==
    LET n == Len(submitted) - Len(matchChan) - Len(Held) IN
    /\ n >= 0
    /\ file = Render(SubSeq(submitted, 1, n))
    /\ Held \o matchChan = SubSeq(submitted, n + 1, Len(submitted))

OnlyWriterReceives ==
    (Len(matchChan') < Len(matchChan))
       => /\ cpc = "recv" /\ cpc' = "write"
          /\ match' = Head(matchChan)
          /\ matchChan' = Tail(matchChan)
          /\ UNCHANGED workerVars

\* C4: the file is written in the order the channel accepted the records, by
\* the one writer
C4_Fifo ==
    /\ []PersistedInOrder
    /\ [][OnlyWriterReceives]_vars

\* three records were accepted and the first two, which differ, are the first
\* two lines of the file
C4_Witness ==
    /\ Len(FileLines) >= 2
    /\ FileLines[1] # FileLines[2]
    /\ Len(submitted) > 2

(***************************************************************************)
(* C5 - a record is submitted exactly for the successful generator calls   *)
(* whose address is in the set, and carries that call's key and address.   *)
(* The hits generated so far are, as a bag, the records submitted plus the *)
(* hits still in the hands of their workers; every line of the file is     *)
(* hex(key):address of a hit; and once the pipeline has drained the lines  *)
(* of the file are exactly the hits, one line each.                        *)
(***************************************************************************)
SeqToBag(ms) == [m \in {ms[i] : i \in DOMAIN ms} |-> Count(ms, m)]

\* the candidates that workers hold and whose address is in the set
InHand ==
    LET ws == {w \in Workers : cand[w] # NoMatch
                               /\ cand[w].address \in btcAddresses}
        ms == {cand[w] : w \in ws}
    IN  [m \in ms |-> Cardinality({w \in ws : cand[w] = m})]

Drained ==
    /\ \A w \in Workers : wpc[w] \in {"unstarted", "gen"}
    /\ matchChan = <<>>
    /\ cpc = "recv"

\* C5: the records submitted are exactly the generated pairs whose address is
\* in the set, and each becomes one line hex(key):address
C5_SubmitIffMember ==
    /\ hits = SeqToBag(submitted) (+) InHand
    /\ \A w \in Workers : wpc[w] = "send" => cand[w].address \in btcAddresses
    /\ \A i \in DOMAIN FileLines :
          \E m \in BagToSet(hits) : FileLines[i] = FormatLine(m)
    /\ Drained =>
          /\ Len(FileLines) = BagCardinality(hits)
          /\ \A m \in MatchResults :
                Count(FileLines, FormatLine(m)) = CopiesIn(m, hits)

\* drained, after one hit and at least one miss; the one line of the file is
\* de:1A
C5_Witness ==
    /\ Drained
    /\ BagCardinality(hits) = 1
    /\ TotalCalls > 1
    /\ file = << "d", "e", ":", "1", "A", "\n" >>

(***************************************************************************)
(* C6 - the shared counter only grows, and every change of it is one       *)
(* addition of updateInterval made by a worker in its count step, when its *)
(* localCounter reaches updateInterval; main, the writer and the           *)
(* statistics reporter never write it.  (The counter is a uint64; the      *)
(* model does not reach the values at which it would wrap.)                *)
(***************************************************************************)
CounterStep ==
    (counter' # counter)
       => /\ counter' = counter + updateInterval
          /\ \E w \in Workers :
                /\ wpc[w] = "count" /\ wpc'[w] # "count"
                /\ localCounter[w] + 1 = updateInterval
                /\ localCounter'[w] = 0
                /\ \A v \in Workers \ {w} :
                      wpc'[v] = wpc[v] /\ localCounter'[v] = localCounter[v]
          /\ UNCHANGED << mainVars, writerVars, statsVars, matchChan,
                          exitCode >>

\* C6: the counter never decreases and changes only by a worker adding
\* updateInterval
C6_CounterMonotone ==
    /\ [][counter' >= counter]_vars
    /\ [][CounterStep]_vars

\* the counter has been added to, and the reporter has read it since
C6_Witness ==
    /\ counter = updateInterval
    /\ lastTotal = counter

(***************************************************************************)
(* C7 - staleness of the counter.  As claimed: the counter never exceeds   *)
(* the number of successful generator calls and falls short of it by at    *)
(* most W*(B-1).                                                           *)
(***************************************************************************)
C7_Original ==
    /\ counter <= TotalCalls
    /\ TotalCalls - counter <= numThreads * (updateInterval - 1)

(***************************************************************************)
(* C7 as amended: the counter falls short of the number of successful      *)
(* generator calls by exactly the sum of the localCounters plus the number *)
(* of workers between the return of a call and their count step, hence by  *)
(* at most W*B (not W*(B-1)), and it never exceeds that number.            *)
(***************************************************************************)
Counting == {w \in Workers : wpc[w] = "count"}

\* C7 as amended: counter <= calls, and calls - counter is the uncounted calls
\* of the workers, at most W*B
C7_Staleness ==
    /\ counter <= TotalCalls
    /\ TotalCalls - counter = TotalLocal + Cardinality(Counting)
    /\ TotalCalls - counter <= numThreads * updateInterval
    /\ \A w \in Workers : localCounter[w] <= updateInterval - 1

\* the shortfall is W*B: every worker has B calls that are not yet counted
C7_Witness ==
    /\ started = numThreads
    /\ TotalCalls - counter = numThreads * updateInterval

(***************************************************************************)
(* C8 - the counter after W workers made V successful calls each.  As      *)
(* claimed: once every worker has made exactly V successful calls and has  *)
(* run the batch update for the last of them, the counter is W*V.  The     *)
(* batch update is the only place where a worker adds to the counter; the  *)
(* worker has no other flush.                                              *)
(***************************************************************************)
AllDone(V) ==
    /\ started = numThreads
    /\ \A w \in Workers :
          w < numThreads => calls[w] = V /\ wpc[w] # "count"

GenFailed == genErrLog' # genErrLog

GenFailFrame ==
    GenFailed
       => /\ genErrLog' = genErrLog + 1
          /\ \E w \in Workers : wpc[w] = "gen" /\ wpc'[w] = "gen"
          /\ UNCHANGED << wpc, cand, localCounter, counter, matchChan, match,
                          wbuf, file, calls, hits, submitted >>

\* C9: the step of a failed generator call changes nothing but the log
C9_GenFailNoEffect == [][GenFailFrame]_vars

\* failures have been logged in a run with progress: calls were counted, the
\* counter has been added to and a record is in the channel
C9_Witness ==
    /\ genErrLog = MaxGenErrors
    /\ counter > 0
    /\ matchChan # <<>>

(***************************************************************************)
(* C10 - generator failures are never escalated.  The step that logs a     *)
(* failure leaves the process running and leaves main, the writer and the  *)
(* statistics reporter where they are; the process exits only by the       *)
(* writer's failure to open the output file, however many generator calls  *)
(* have failed; and a started worker is always at one of its loop          *)
(* positions.                                                              *)
(***************************************************************************)
GenFailKeepsRunning ==
    GenFailed
       => /\ exitCode = Running /\ exitCode' = Running
          /\ UNCHANGED << mainVars, cpc, spc, lastTotal, wpc >>

\* C10: a failed generator call never ends the process or stops a goroutine
C10_GenFailNotFatal ==
    /\ [](exitCode # Running => cpc = "open")
    /\ [](\A w \in Workers :
            w < started => wpc[w] \in {"gen", "count", "send"})
    /\ [][GenFailKeepsRunning]_vars

\* the one worker has failed on every call it made, MaxGenErrors times in a
\* row; it is at its generator call again and the process runs
C10_Witness ==
    /\ numThreads = 1
    /\ started = 1
    /\ genErrLog = MaxGenErrors
    /\ TotalCalls = 0
    /\ wpc[0] = "gen"
    /\ exitCode = Running
    /\ Opened

(***************************************************************************)
(* C11.  A record's write fails either in writer.Flush(), when file.Write  *)
(* fails, or in writer.WriteString, when the writer keeps an earlier       *)
(* error.  failed counts the records whose write failed, writeErrLog the   *)
(* "Failed to write match" lines.                                          *)
(***************************************************************************)
\* C11: whenever the writer is back at the channel, every record whose write
\* or flush failed has its line in the log, and no such failure has ended
\* the process
C11_FailureLogged ==
    /\ (cpc = "recv" => writeErrLog = failed)
    /\ (failed > 0 => exitCode = Running)

(***************************************************************************)
(* C12.  The failed os.OpenFile is the step that logs OpenMsg.             *)
(***************************************************************************)
\* the process has ended: no goroutine takes a step any more
Halted == (exitCode = Exit1) => UNCHANGED vars

\* C12: once the opening of the output file has failed and is logged, the
\* process has status 1, no goroutine steps any more, and the file holds
\* what it held at the start
C12_OpenFailFatal ==
    /\ [](fatalMsg = OpenMsg
            => /\ exitCode = Exit1
               /\ file = file0
               /\ wbuf = <<>>
               /\ ~fileExists)
    /\ [][Halted]_vars

C12_Witness ==
    /\ fatalMsg = OpenMsg
    /\ exitCode = Exit1
    /\ matchChan # <<>>
    /\ \E w \in Workers : wpc[w] = "send"
    /\ spc = "tick"

(***************************************************************************)
(* C13, C14, C15.  The startup of main, under SpecStart.                   *)
(***************************************************************************)
\* main has started no goroutine and the output file is as it was
NothingStarted ==
    /\ started = 0
    /\ cpc = "unstarted"
    /\ spc = "unstarted"
    /\ \A w \in Workers : wpc[w] = "unstarted"
    /\ ~fileExists
    /\ file = file0

\* with a wrong argument count the only step there is is the usage exit
UsageStep ==
    (argc # 4) => (exitCode = Running /\ exitCode' = Exit1 /\ fatalMsg' = UsageMsg)

\* C13: with len(os.Args) other than 4 main never gets past its first
\* statement: the address set is not loaded, nothing is started, the file
\* is not created, and the only step is the exit with status 1 after the
\* usage lines
C13_UsageExit ==
    /\ []((argc # 4)
            => /\ mainPc = "args"
               /\ numThreads = 0
               /\ btcAddresses = {}
               /\ NothingStarted
               /\ (exitCode = Exit1 <=> fatalMsg = UsageMsg)
               /\ fatalMsg \in {NoMsg, UsageMsg})
    /\ [][UsageStep]_vars

C13_Witness ==
    /\ argc = 5
    /\ exitCode = Exit1
    /\ fatalMsg = UsageMsg

\* the command line passes the checks of main
ValidArgs ==
    /\ argc = 4
    /\ ~Atoi(threadsArg).err
    /\ Atoi(threadsArg).n >= 1

\* main has begun to start goroutines
Validated == mainPc \in {"startWriter", "startStats", "startWorkers", "wait"}

\* C14: a worker count that is not an integer or is below 1 and an
\* unreadable address file end the process with status 1 while nothing is
\* started and the output file is neither opened nor created; whatever is
\* started is started after all three checks have passed
C14_ValidationFirst ==
    /\ [](fatalMsg \in {AtoiMsg, ThreadsMsg, ReadMsg}
            => exitCode = Exit1 /\ NothingStarted /\ ~Validated)
    /\ []((argc = 4 /\ Atoi(threadsArg).err)
            => /\ mainPc = "args"
               /\ NothingStarted
               /\ (exitCode = Exit1 => fatalMsg = AtoiMsg))
    /\ []((argc = 4 /\ ~Atoi(threadsArg).err /\ Atoi(threadsArg).n < 1)
            => /\ mainPc \in {"args", "threads"}
               /\ NothingStarted
               /\ (exitCode = Exit1 => fatalMsg = ThreadsMsg))
    /\ [](~NothingStarted
            => ValidArgs /\ Validated /\ btcAddresses = TargetAddresses
               /\ fatalMsg \in {NoMsg, OpenMsg})

C14_Witness ==
    /\ fatalMsg = ReadMsg
    /\ exitCode = Exit1
    /\ numThreads >= 1
    /\ mainPc = "load"

\* C15: with a command line that passes the checks the output file comes to
\* exist, unless the address file cannot be read or the output file cannot
\* be opened
C15_EventuallyCreated ==
    ValidArgs ~> (fileExists \/ fatalMsg \in {ReadMsg, OpenMsg})

C15_Witness ==
    /\ fileExists
    /\ file = <<>>
    /\ hits = EmptyBag
    /\ submitted = <<>>
    /\ TotalCalls = MaxCalls
    /\ \A w \in Workers : wpc[w] # "count"

(***************************************************************************)
(* C16.  The output file under SpecFault: it may hold a line of an earlier *)
(* run, and a file.Write may fail after a part of the buffer is written.   *)
(***************************************************************************)
IsPrefix(a, b) == Len(a) <= Len(b) /\ SubSeq(b, 1, Len(a)) = a

\* no step takes anything away from the file or changes what it holds
FileGrows == IsPrefix(file, file')

\* matchWriter is at os.OpenFile once: having left it, it does not return
OpensOnce == (cpc' = "open") => (cpc \in {"unstarted", "open"})

\* C16: the file always begins with the content it had when the process
\* began, every step keeps the earlier content as a prefix, and the file is
\* opened once
C16_AppendOnly ==
    /\ [](IsPrefix(file0, file))
    /\ [][FileGrows]_vars
    /\ [][OpensOnce]_vars

C16_Witness ==
    /\ file0 # <<>>
    /\ Len(file) > Len(file0) + Len(FormatLine(NoMatch))
    /\ werr
    /\ cpc = "recv"

(***************************************************************************)
(* C17.  Under Spec no file.Write fails.  The records the writer has       *)
(* received are the accepted ones that are no longer in the channel.       *)
(***************************************************************************)
Dequeued == SubSeq(submitted, 1, Len(submitted) - Len(matchChan))

\* the received records without the one in the writer's hands
Flushed == SubSeq(Dequeued, 1, Len(Dequeued) - Len(Held))

\* C17: the file holds the lines of all received records but the one in the
\* writer's hands, the buffer holds at most the line of that one, and at
\* the channel the writer holds nothing: every received record is in the
\* file
C17_FlushPerRecord ==
    /\ ~werr
    /\ file = file0 \o Render(Flushed)
    /\ Len(Dequeued) - Len(Flushed) <= 1
    /\ (cpc \in {"write", "flush"} => match = Dequeued[Len(Dequeued)])
    /\ wbuf = (IF cpc = "flush" THEN FormatLine(match) ELSE <<>>)
    /\ (cpc = "recv" => file = file0 \o Render(Dequeued) /\ match = NoMatch)

C17_Witness ==
    /\ cpc = "flush"
    /\ Len(Dequeued) = 2
    /\ file = Render(<< Dequeued[1] >>)
    /\ wbuf = FormatLine(Dequeued[2])
    /\ matchChan # <<>>

(***************************************************************************)
(* C18, C19, C20.  The timed statistics, under SpecStats.  A tick is the   *)
(* step that advances the clock reading.                                   *)
(***************************************************************************)
Ticked == clock' # clock

\* a tick changes lastTotal, lastTime and the printed figures, and nothing
\* else; all it takes from the shared state is the one value of the counter
TickFrame ==
    Ticked
       => /\ lastTotal' = counter
          /\ report'.total = counter
          /\ report'.overallRate[1] = counter
          /\ UNCHANGED << counter, matchChan, btcAddresses, file, fileExists,
                          wbuf, match, cpc, workerVars, mainVars, spc,
                          exitCode, fatalMsg, histVars, bufVars, argVars >>

\* the baseline and the printed figures change in ticks only
BaselineOwned ==
    (lastTotal' # lastTotal \/ lastTime' # lastTime \/ report' # report)
       => Ticked /\ spc = "tick"

\* C18: a tick reads the counter once and changes only the reporter's own
\* lastTotal, lastTime and printed figures
C18_TickObserves == [][TickFrame /\ BaselineOwned]_vars

C18_Witness ==
    /\ clock > 0
    /\ report.total > 0
    /\ lastTotal = counter
    /\ matchChan # <<>>
    /\ cpc = "flush"
    /\ \E w \in Workers : wpc[w] = "count"

\* the quotient of a rate is 0
IsZero(rate) == rate[1] = 0 /\ rate[2] > 0

\* the interval figures of a tick
TickInterval ==
    Ticked
       => /\ report'.instantRate[1] = counter - lastTotal
          /\ report'.instantRate[2] = lastTime' - lastTime
          /\ lastTime' > lastTime
          /\ lastTotal' = counter
          /\ lastTime' \in (clock + 1) .. clock'
          /\ (counter = lastTotal => IsZero(report'.instantRate))

\* C19: the interval count of a tick is the counter read now minus the one
\* read at the tick before (0 before the first tick), the baseline is then
\* replaced by the values of this tick, and a counter that has not moved
\* since the tick before gives the instantaneous rate 0
C19_IntervalCount ==
    /\ [](clock = 0 => lastTotal = 0 /\ lastTime = 0)
    /\ [][TickInterval]_vars

C19_Witness ==
    /\ lastTime >= 2
    /\ report.total > 0
    /\ IsZero(report.instantRate)

\* the quotient of rate a is below, or at most, that of rate b; the
\* seconds are positive
RateLess(a, b) == a[1] * b[2] < b[1] * a[2]
RateAtMost(a, b) == a[1] * b[2] <= b[1] * a[2]

\* a tick after an earlier one that reads the total the earlier one read
TickDecreases ==
    (Ticked /\ clock > 0 /\ counter = report.total)
       => /\ report.overallRate[2] > 0
          /\ report'.overallRate[2] > report.overallRate[2]
          /\ RateAtMost(report'.overallRate, report.overallRate)
          /\ (counter > 0 => RateLess(report'.overallRate, report.overallRate))

\* C20: of two successive ticks that read the same total the later one has
\* the longer elapsed time and reports an overall rate that is not higher,
\* and lower when the total is positive
C20_OverallRateDecreases == [][TickDecreases]_vars

C20_Witness ==
    /\ clock = MaxTime
    /\ lastTime >= 2
    /\ report.total > 0
    /\ report.total = lastTotal
    /\ IsZero(report.instantRate)
    /\ RateLess(report.overallRate, Rate(report.total, 1))

(***************************************************************************)
(* C22, C23.  readAddresses, under SpecRead.  The lines of a text are its  *)
(* stretches between newlines; a last stretch without a newline is a line  *)
(* when it is not empty.                                                   *)
(***************************************************************************)
LineStarts(text) ==
    { i \in 1 .. Len(text) : i = 1 \/ text[i - 1] = "\n" }

\* the place after the line that starts at i
LineEnd(text, i) ==
    CHOOSE j \in i .. (Len(text) + 1) :
        /\ j = Len(text) + 1 \/ text[j] = "\n"
        /\ \A k \in i .. (j - 1) : text[k] # "\n"

SourceLines(text) ==
    { SubSeq(text, i, LineEnd(text, i) - 1) : i \in LineStarts(text) }

\* the file can be opened and read to its end
Readable(src) == src.openable /\ ~src.readFails

\* every line fits into the buffer of the scanner
ShortLines(text) == \A l \in SourceLines(text) : Len(l) < MaxScanTokenSize

\* no line ends in a carriage return
NoCR(text) ==
    \A l \in SourceLines(text) : l = <<>> \/ l[Len(l)] # "\r"

\* C22 as stated: every readable source loads, and the set is the set of
\* its lines
C22_Original ==
    (loaded.called /\ Readable(source))
       => /\ ~loaded.err
          /\ ~loaded.isNil
          /\ loaded.addresses = SourceLines(source.content)
          /\ Cardinality(loaded.addresses)
                = Cardinality(SourceLines(source.content))

\* C22: a readable source whose lines all fit into the scanner's buffer
\* loads with exactly its distinct lines, each without its trailing
\* carriage return if it has one; a readable source with a line that does
\* not fit gives an error and no set
C22_DistinctLines ==
    (loaded.called /\ Readable(source))
       => IF ShortLines(source.content)
          THEN /\ ~loaded.err
               /\ ~loaded.isNil
               /\ loaded.addresses
                    = { DropCR(l) : l \in SourceLines(source.content) }
               /\ (NoCR(source.content)
                     => /\ loaded.addresses = SourceLines(source.content)
                        /\ Cardinality(loaded.addresses)
                             = Cardinality(SourceLines(source.content)))
               /\ (source.content = <<>> => loaded.addresses = {})
          ELSE loaded.err /\ loaded.isNil

C22_Witness ==
    /\ loaded.called
    /\ Readable(source)
    /\ source.content = << "a", "\n", "a", "\n" >>
    /\ loaded.addresses = { << "a" >> }

\* C23: a source that cannot be opened or whose read fails gives an error
\* and the nil map, whatever was scanned before the failure
C23_ErrorNoIndex ==
    (loaded.called /\ ~Readable(source))
       => /\ loaded.err
          /\ loaded.isNil
          /\ loaded.addresses = {}

C23_Witness ==
    /\ loaded.called
    /\ source.readFails
    /\ source.readBefore = 3
    /\ source.content = << "a", "\n", "b", "\n" >>
    /\ loaded.err
    /\ loaded.isNil

(***************************************************************************)
(* C21.  The address set, under SpecStart.                                 *)
(***************************************************************************)
\* the only step that changes the set is main's assignment of the result
\* of readAddresses, taken while nothing is started
IndexBuiltOnce ==
    (btcAddresses' # btcAddresses)
       => /\ mainPc = "load" /\ mainPc' = "startWriter"
          /\ btcAddresses = {}
          /\ btcAddresses' = TargetAddresses
          /\ NothingStarted
          /\ \A w \in Workers : wpc'[w] = "unstarted"

\* C21: the address set is assigned once, by main, before the first go
\* statement, and every state with a started goroutine has the loaded set
C21_IndexImmutable ==
    /\ [][IndexBuiltOnce]_vars
    /\ []((cpc # "unstarted" \/ spc # "unstarted"
           \/ \E w \in Workers : wpc[w] # "unstarted")
            => btcAddresses = TargetAddresses)

C21_Witness ==
    /\ btcAddresses = TargetAddresses
    /\ argc = 4
    /\ threadsArg = Itoa(1)
    /\ submitted # <<>>
    /\ wpc[0] = "gen"
    /\ calls[0] = MaxCalls
    /\ cpc = "recv"
    /\ file # <<>>
    /\ lastTotal > 0

(***************************************************************************)
(* C24, C25.  The buffer pool, under SpecPool.                             *)
(***************************************************************************)
\* the workers that hold a buffer
Borrowers == { w \in Workers : held[w] # NoBuffer }

\* the worker is inside generateKeyAndAddress, after bufferPool.Get()
InCall(w) == wpc[w] = "build"

\* C24: a worker holds a buffer only inside a call of
\* generateKeyAndAddress: outside, after a return and after a failed call
\* alike, it holds none, and no more buffers are out than workers started
C24_ScopedBuffer ==
    /\ \A w \in Workers : (held[w] # NoBuffer) <=> InCall(w)
    /\ Cardinality(Borrowers) <= started
    /\ started <= numThreads

C24_Witness ==
    /\ genErrLog > 0
    /\ wpc[0] = "count"
    /\ calls[0] = 2
    /\ held[0] = NoBuffer
    /\ pool # {}
    /\ allocated = 1

\* C25: two workers never hold the same buffer, a held buffer is not in
\* the pool, and every buffer is one that bufferPool.New made
C25_ExclusiveBuffer ==
    /\ \A v, w \in Borrowers : v # w => held[v] # held[w]
    /\ \A w \in Borrowers : held[w] \notin pool
    /\ \A w \in Borrowers : held[w].id \in 1 .. allocated
    /\ \A b \in pool : b.id \in 1 .. allocated

C25_Witness ==
    /\ Cardinality(Borrowers) = 2
    /\ allocated = 2
    /\ TotalCalls >= 1
    /\ pool = {}

(***************************************************************************)
(* C26, C27.  The end of the pipeline.  A worker is alive from its go      *)
(* statement on; the loop of worker has no return and no break.            *)
(***************************************************************************)
Alive(w) == wpc[w] \in {"gen", "count", "send"}

\* the channel is closed by main, in workerWg.Wait() or after it, when no
\* worker is alive
ClosedLast ==
    (closed' # closed)
       => /\ closed'
          /\ mainPc = "wait"
          /\ \A w \in Workers : ~Alive(w)

\* C26: while a worker is alive the channel is not closed, so no worker is
\* at its send, blocked or not, on a closed channel
C26_CloseAfterWorkers ==
    /\ [](closed => \A w \in Workers : ~Alive(w))
    /\ [](\A w \in Workers : wpc[w] = "send" => ~closed)
    /\ [][ClosedLast]_vars

C26_Witness ==
    /\ mainPc = "wait"
    /\ ~closed
    /\ Len(matchChan) = matchChanCap
    /\ \E w \in Workers : wpc[w] = "send"
    /\ \A w \in Workers : w < numThreads => Alive(w)

\* no goroutine leaves its loop and main stays in workerWg.Wait()
StaysRunning ==
    /\ \A w \in Workers : Alive(w) => wpc'[w] \in {"gen", "count", "send"}
    /\ Opened => cpc' \in {"recv", "write", "flush"}
    /\ (spc = "tick") => (spc' = "tick")
    /\ (mainPc = "wait") => (mainPc' = "wait")

\* C27: every started worker is alive in every state, the channel is never
\* closed, the writer stays in its range loop, the reporter in its tick
\* loop and main in workerWg.Wait(); the process ends itself only by the
\* failed os.OpenFile
C27_NoTaskStops ==
    /\ [](\A w \in Workers : (w < started) <=> Alive(w))
    /\ [](~closed)
    /\ [](exitCode = Exit1 => fatalMsg = OpenMsg /\ cpc = "open")
    /\ [][StaysRunning]_vars

C27_Witness ==
    /\ mainPc = "wait"
    /\ TotalCalls = MaxCalls
    /\ genErrLog = MaxGenErrors
    /\ \A w \in Workers : w < numThreads => wpc[w] = "gen"
    /\ cpc = "recv"
    /\ matchChan = <<>>
    /\ Len(FileLines) = MaxCalls
    /\ spc = "tick"
    /\ exitCode = Running

(***************************************************************************)
(* The specification of one generateKeyAndAddress call: the hash160 of the *)
(* new key and the checksum of its payload are the inputs; the call        *)
(* returns the key and the address, or the error of btcec.NewPrivateKey.   *)
(***************************************************************************)
AddrFrame ==
    UNCHANGED << numThreads, mainVars, btcAddresses, counter, matchChan,
                 workerVars, writerVars, statsVars, exitCode, histVars,
                 argVars, closed, readVars, poolVars, fileExists, bufVars,
                 timeVars, fatalMsg >>

InitAddr ==
    /\ NothingRun
    /\ ReadIdle
    /\ PoolIdle
    /\ argc = 4
    /\ numThreads = 1
    /\ threadsArg = Itoa(numThreads)
    /\ mainPc = "startWriter"
    /\ btcAddresses = {}
    /\ file0 = <<>>
    /\ file = file0
    /\ fileExists = FALSE
    /\ hashIn \in {in \in HashInputs : in.checksum \in Checksums(in.hash160)}
    /\ derived = NotDerived

\* lines 193-196: btcec.NewPrivateKey fails
GenerateFail ==
    /\ ~derived.done
    /\ derived' = [done |-> TRUE, privateKey |-> <<>>, address |-> <<>>,
                   buf |-> <<>>, err |-> TRUE]
    /\ UNCHANGED hashIn
    /\ AddrFrame

\* lines 193-236: the call returns a key and the address of its hash160
Generate ==
    /\ ~derived.done
    /\ \E k \in PrivateKeys :
          derived' = [done |-> TRUE, privateKey |-> k,
                      address |-> Encode(Payload(hashIn)),
                      buf |-> Payload(hashIn), err |-> FALSE]
    /\ UNCHANGED hashIn
    /\ AddrFrame

NextAddr == Generate \/ GenerateFail

SpecAddr == InitAddr /\ [][NextAddr]_vars

(***************************************************************************)
(* The specification of the busy writer: it begins where Spec begins and   *)
(* runs long enough for one match to be in matchWriter's hands, the        *)
(* channel to be full and one more match to be at its send.  Key           *)
(* generation does not fail and the statistics reporter does not tick.     *)
(***************************************************************************)
MaxMatches == matchChanCap + 2

\* generateKeyAndAddress returns a key and its address
WorkerGenLong(w) ==
    /\ exitCode = Running
    /\ wpc[w] = "gen"
    /\ SumOver(calls, Workers) < MaxMatches
    /\ \E k \in PrivateKeys, a \in GenAddresses :
          LET m == [privateKey |-> k, address |-> a] IN
          /\ cand' = [cand EXCEPT ![w] = m]
          /\ hits' = IF a \in btcAddresses THEN hits (+) SetToBag({m})
                                           ELSE hits
    /\ wpc' = [wpc EXCEPT ![w] = "count"]
    /\ calls' = [calls EXCEPT ![w] = @ + 1]
    /\ UNCHANGED auxVars
    /\ UNCHANGED << mainVars, btcAddresses, counter, matchChan, localCounter,
                    writerVars, statsVars, exitCode, genErrLog,
                    submitted >>

InitSend ==
    /\ NothingRun
    /\ ReadIdle
    /\ PoolIdle
    /\ AddrIdle
    /\ argc = 4
    /\ numThreads \in 1 .. MaxThreads
    /\ threadsArg = Itoa(numThreads)
    /\ mainPc = "startWriter"
    /\ btcAddresses = TargetAddresses
    /\ file0 = <<>>
    /\ file = file0
    /\ fileExists = FALSE

NextSend ==
    \/ Main
    \/ \E w \in Workers : WorkerGenLong(w) \/ WorkerCount(w) \/ WorkerSend(w)
    \/ MatchWriter

SpecSend == InitSend /\ [][NextSend]_vars

(***************************************************************************)
(* C28.  The send of a match and the writer's work on the file.  The send  *)
(* at line 334 is a send on a channel of capacity matchChanCap: it needs   *)
(* room in the buffer and nothing else.  When the buffer is full the       *)
(* worker waits for a receive, and matchWriter is back at its receive only *)
(* after the WriteString and the Flush of the record before.               *)
(***************************************************************************)
WriterBusy == cpc \in {"write", "flush"}

SendStep ==
    \A w \in Workers :
        (wpc[w] = "send" /\ wpc'[w] # "send")
           => /\ wpc'[w] = "gen"
              /\ matchChan' = Append(matchChan, cand[w])
              /\ UNCHANGED << writerVars, bufVars, fileExists >>

C30_OpenBeforeGenerate ==
    /\ (TotalCalls > 0) => Opened
    /\ (fatalMsg = OpenMsg) => (TotalCalls = 0)

(***************************************************************************)
(* C29.  The shape of the address a successful generateKeyAndAddress call  *)
(* returns.                                                                *)
(***************************************************************************)
Returned == derived.done /\ ~derived.err

\* C29: a successful call returns a key and an address that is not empty,
\* begins with "1", has 26 to 35 characters, all of the Base58 alphabet;
\* the payload has 25 bytes: the zero version byte, the hash160 and the
\* checksum, and the "1" in front is the digit of that zero byte
C29_AddressFormat ==
    Returned =>
       /\ derived.privateKey \in PrivateKeys
       /\ derived.address # <<>>
       /\ derived.address[1] = "1"
       /\ Len(derived.address) \in 26 .. 35
       /\ \A i \in DOMAIN derived.address :
             \E d \in DOMAIN Alphabet : Alphabet[d] = derived.address[i]
       /\ Len(derived.buf) = 25
       /\ derived.buf[1] = 0
       /\ SubSeq(derived.buf, 2, 21) = hashIn.hash160
       /\ SubSeq(derived.buf, 22, 25) = hashIn.checksum

\* the shortest address: one byte of the hash160 is not zero and the
\* checksum is small
C29_Witness ==
    /\ Returned
    /\ LeadingZeros(derived.buf) = HashLen
    /\ Len(derived.address) = 26

(***************************************************************************)
(* C31.  The batching of the shared counter in worker.  A call that has    *)
(* returned a key is counted by the localCounter++ that follows it; the    *)
(* worker is between the two while it is at "count".                       *)
(***************************************************************************)
\* successful calls of w that its localCounter++ has counted
Counted(w) == calls[w] - (IF wpc[w] = "count" THEN 1 ELSE 0)

\* localCounter changes only in the iteration of a successful call: by one,
\* or from updateInterval - 1 to zero together with updateInterval added to
\* the shared counter; the shared counter changes in no other step
BatchStep ==
    /\ \A w \in Workers :
          (localCounter'[w] # localCounter[w])
             => /\ wpc[w] = "count"
                /\ calls'[w] = calls[w]
                /\ \/ /\ localCounter'[w] = localCounter[w] + 1
                      /\ localCounter'[w] < updateInterval
                      /\ counter' = counter
                   \/ /\ localCounter[w] + 1 = updateInterval
                      /\ localCounter'[w] = 0
                      /\ counter' = counter + updateInterval
    /\ (counter' # counter)
          => \E w \in Workers : wpc[w] = "count" /\ localCounter'[w] = 0
    /\ \A w \in Workers :
          (wpc[w] = "count" /\ wpc'[w] # "count")
             => localCounter'[w] = (localCounter[w] + 1) % updateInterval

\* C31: the private counter of a worker is the number of its counted calls
\* modulo updateInterval, so it is below updateInterval at every loop head;
\* the shared counter is a multiple of updateInterval and holds what the
\* private counters have handed over; and every step is a batching step
C31_Batching ==
    /\ [](\A w \in Workers :
             /\ localCounter[w] \in 0 .. updateInterval - 1
             /\ localCounter[w] = Counted(w) % updateInterval)
    /\ [](counter % updateInterval = 0)
    /\ [](counter = SumOver([w \in Workers |-> Counted(w) - localCounter[w]], Workers))
    /\ [][BatchStep]_vars

\* a worker is back at its loop head right after it has handed over a batch
C31_Witness ==
    \E w \in Workers :
        /\ wpc[w] = "gen"
        /\ calls[w] = updateInterval
        /\ localCounter[w] = 0
        /\ counter = updateInterval

(***************************************************************************)
(* C32.  The records after a failed file.Write, under SpecFault.  One      *)
(* file.Write fails there, in one writer.Flush(); a later file.Write would *)
(* succeed.  The bufio.Writer keeps the error of the failed one: every     *)
(* later WriteString and Flush returns it at once and writes nothing.      *)
(***************************************************************************)
\* what this run has added to the file
Added == SubSeq(file, Len(file0) + 1, Len(file))

\* the newline-terminated lines among the lines of a text
WholeLines(t) ==
    LET ls == SplitLines(t, <<>>)
    IN  {i \in DOMAIN ls : ls[i][Len(ls[i])] = "\n"}

\* C32: when the writer is back at the channel, all the records it has
\* received but at most one, the record of the failed write, are lines of
\* the file
C32_OnlyFailedRecordLost ==
    (cpc = "recv")
       => Len(Dequeued) - Cardinality(WholeLines(Added)) <= 1

(***************************************************************************)
(* C33.  The console line "SAVED TO FILE" of matchWriter, under SpecFault. *)
(* The Printf at line 411 follows writer.Flush() in every iteration; it    *)
(* tests neither the error of WriteString nor the value Flush returned.    *)
(***************************************************************************)

\* C33: the records announced as saved are lines of the file, and while a
\* write or a flush has failed for some record, fewer records have been
\* announced than received
C33_SavedOnlyIfWritten ==
    /\ Len(saved) <= Cardinality(WholeLines(Added))
    /\ (cpc = "recv" /\ failed > 0) => Len(saved) < Len(Dequeued)

(***************************************************************************)
(* C34.  What one step adds to the file, under SpecFault.  A Flush hands   *)
(* the buffered line to file.Write in one call; a file.Write that fails    *)
(* may have written a part of it.                                          *)
(***************************************************************************)
\* what the step has added to the file
Chunk == SubSeq(file', Len(file) + 1, Len(file'))

EndsInNewline(t) == t = <<>> \/ t[Len(t)] = "\n"

\* the statement as given: what this run has added never ends in a partial
\* line
C34_Original == EndsInNewline(Added)

\* a step that adds to the file adds the whole line of the record in the
\* writer's hands, or, in the one Flush whose file.Write fails, a part of
\* that line
WholeLineStep ==
    (file' # file)
       => /\ IsPrefix(file, file')
          /\ cpc = "flush"
          /\ \/ /\ Chunk = FormatLine(match)
                /\ ~werr'
             \/ /\ ~werr /\ werr'
                /\ IsPrefix(Chunk, FormatLine(match))
                /\ Len(Chunk) < Len(FormatLine(match))

\* C34: as long as no file.Write has failed, what this run has added is the
\* lines of the records written, each whole, and it ends in a newline;
\* every step adds one whole line, or a part of one in the failing Flush
C34_WholeLinesUnlessFault ==
    /\ [](~werr => Added = Render(Flushed) /\ EndsInNewline(Added))
    /\ [](Cardinality(WholeLines(Added)) <= Len(Flushed))
    /\ [][WholeLineStep]_vars

\* a whole line of this run followed by a part of the next one
C34_Witness ==
    /\ werr
    /\ cpc = "recv"
    /\ Cardinality(WholeLines(Added)) = 1
    /\ ~EndsInNewline(Added)

(***************************************************************************)
(* C36.  Where the goroutines of the pipeline wait.  A worker waits in the *)
(* send at line 334, matchWriter in the receive of its range loop.         *)
(***************************************************************************)
\* w is at its send and cannot take it
WorkerBlocked(w) ==
    exitCode = Running /\ wpc[w] = "send" /\ ~ENABLED WorkerSend(w)

\* matchWriter is at its receive and cannot take it
WriterBlocked ==
    exitCode = Running /\ cpc = "recv" /\ ~ENABLED WriterRecv

\* C36: a worker is blocked only at a full channel and matchWriter only at
\* an empty one, so never both; a worker past generateKeyAndAddress and
\* not at its send, and matchWriter past its receive, can always step; and
\* while a worker is blocked the channel holds a record and matchWriter has
\* a step to take
C36_NoDeadlock ==
    /\ \A w \in Workers : WorkerBlocked(w) => Len(matchChan) = matchChanCap
    /\ WriterBlocked => matchChan = <<>>
    /\ ~(WriterBlocked /\ \E w \in Workers : WorkerBlocked(w))
    /\ \A w \in Workers :
          (exitCode = Running /\ wpc[w] = "count") => ENABLED WorkerCount(w)
    /\ (exitCode = Running /\ cpc \in {"open", "write", "flush"})
          => ENABLED MatchWriter
    /\ \A w \in Workers :
          WorkerBlocked(w) => (matchChan # <<>> /\ ENABLED MatchWriter)

\* every worker is blocked at the full channel and matchWriter is at its
\* receive
C36_Witness ==
    /\ mainPc = "wait"
    /\ cpc = "recv"
    /\ \A w \in Workers : w < numThreads => WorkerBlocked(w)

(***************************************************************************)
(* C37.  The baseline lastTotal of statsReporter and the counter, under    *)
(* SpecStats.  intervalKeys := total - lastTotal is a subtraction of       *)
(* uint64 values: it gives the difference when lastTotal is at most total. *)
(***************************************************************************)
\* a tick reads a total that is not below the baseline, prints their
\* difference as the interval count, and the interval counts printed so
\* far then add up to the total just read
TickNoWrap ==
    Ticked
       => /\ lastTotal <= counter
          /\ report'.instantRate[1] = counter - lastTotal
          /\ report'.instantRate[1] >= 0
          /\ intervals' = intervals + (counter - lastTotal)
          /\ intervals' = counter

\* C37: the baseline is never above the counter, it is the total the last
\* tick has read, and the interval counts of all ticks so far sum to it
C37_BaselineAtMostCounter ==
    /\ [](lastTotal <= counter)
    /\ [](lastTotal = report.total /\ intervals = lastTotal)
    /\ [][TickNoWrap]_vars

\* a tick after an earlier one, with keys counted in between
C37_Witness ==
    /\ report.instantRate[2] < lastTime
    /\ report.instantRate[1] > 0
    /\ intervals = counter
    /\ lastTotal = counter

(***************************************************************************)
(* C38.  The buffers of bufferPool, under SpecPool.                        *)
(***************************************************************************)
\* buf after the appends of lines 218, 219 and 228 to the buffer w holds
Built(w) == AppendN(AppendN(AppendN(held[w], 1), HashLen), ChecksumLen)

\* C38: a buffer a worker has got from the pool, new or used before, has
\* length 0 and capacity at least 128; so has every buffer in the pool; and
\* the 25 bytes of the payload are appended within that capacity, in the
\* array of the pooled buffer
C38_PooledBufferShape ==
    /\ \A w \in Workers :
          InCall(w)
             => /\ held[w].len = 0
                /\ held[w].cap >= 128
                /\ Built(w).len = 25
                /\ Built(w).id = held[w].id
                /\ Built(w).cap = held[w].cap
    /\ \A b \in pool : b.cap >= 128 /\ b.len = 0

\* a worker holds, in its second call, the buffer of its first call
C38_Witness ==
    \E w \in Workers :
        /\ InCall(w)
        /\ calls[w] >= 1
        /\ allocated = 1
        /\ held[w].id = 1
        /\ pool = {}

====
